---- MODULE Spec2Model ----
(***************************************************************************)
(* Model of the chunking, table-extraction and snapshot-writing core of    *)
(* fsodanilo/chathibri:                                                    *)
(*   backend/services/pdf_processing_service.py  (PDFProcessingService)    *)
(*   backend/services/s3_pdf_processor.py        (S3PDFProcessor)          *)
(*   backend/main.py                             (status map, requests)    *)
(*                                                                         *)
(* A text is a sequence of runs [c |-> character, n |-> repetitions]: a    *)
(* run of n letters is one element, every other character is a run of 1.   *)
(* This is the string itself, run-length encoded, so that texts longer     *)
(* than chunk_size stay small values.                                      *)
(*                                                                         *)
(* Each component has its own specification over the same variables; the   *)
(* variable `mode` names the component a behaviour exercises and the other *)
(* components stay idle:                                                   *)
(*   SpecChunk    create_text_chunks                                       *)
(*   SpecClean    _clean_text                                              *)
(*   SpecParse    parse_ai_response                                        *)
(*   SpecExtract  extract_text_from_pdf (both classes)                     *)
(*   SpecWriter   save_or_append_delta_table_to_s3, two background units   *)
(*   SpecGen      generate_and_save_delta_tables_to_s3                     *)
(*   SpecTask     main.py: uploads, units, forcing, sweep, with a clock    *)
(*   SpecPool     main.py: uploads and their units alone (SpecPoolFair)    *)
(*   SpecClassify process_pdf_with_table_extraction, failed text step      *)
(*   SpecAi       extract_tables_with_ai                                   *)
(*   SpecAthena   setup_athena_compatibility                               *)
(*   SpecBreak    _find_natural_break                                      *)
(***************************************************************************)
EXTENDS Integers, Sequences, FiniteSets, TLC

VARIABLES
    mode,       \* which component this behaviour exercises
    c_pc,       \* create_text_chunks: "start" | "loop" | "done" | "idle"
    c_raw,      \* the text argument as passed in
    c_text,     \* the local `text` after _clean_text
    c_start,    \* local `start`
    c_iter,     \* local `iteration_count`
    c_chunks,   \* local `chunks` / the returned list
    c_prev,     \* <<old_start, end>> of the last loop iteration (or <<>>)
    n_pc,       \* _clean_text applied: "in" | "once" | "twice" | "idle"
    n_in,       \* a text
    n_once,     \* _clean_text(n_in)
    n_twice,    \* _clean_text(n_once)
    p_pc,       \* parse_ai_response: "start" | "try" | "done" | "idle"
    p_in,       \* the response_text argument
    p_text,     \* local `response_text` after fence removal and strip
    p_cands,    \* local `json_candidates`
    p_i,        \* index of the candidate the for loop is at (1-based)
    p_ret,      \* [raised, data]: how the call ended
    x_pc,       \* extract_text_from_pdf: "open" | "pages" | "done" | "idle"
    x_impl,     \* which class's extract_text_from_pdf runs
    x_doc,      \* the PDF: what page.extract_text() does on each page
    x_i,        \* number of pages the for loop has been through
    x_text,     \* local `text` / `full_text`: page numbers appended so far
    x_info,     \* local `pages_info`
    x_res,      \* the returned dictionary
    w_pc,       \* save_or_append_delta_table_to_s3, per background unit
    w_entry,    \* per unit: the log entry and data file it prepared
    w_ret,      \* per unit: what its last call returned
    s3,         \* the bucket: object key -> body
    glue,       \* the catalog: table name -> the columns registered
    athena,     \* [manifest, glue]: calls made so far to each
    h_calls,    \* history: calls begun
    h_done,     \* history: calls that returned an s3 path
    h_overlap,  \* history: a call began while another was in progress
    h_faults,   \* history: storage requests that failed
    h_first,    \* history: the bucket when the first call returned
    g_pc,       \* generate_and_save_delta_tables_to_s3: position
    g_tables,   \* the tables_data argument: table type -> "empty" | "rows"
    g_client,   \* whether self.s3_client is configured
    g_files,    \* local `delta_files`: the keys set so far
    g_s3,       \* the bucket when the call began
    processing_status,  \* main.py: task id -> entry
    u_pc,       \* process_pdf_sync, per task: where the background unit is
    u_env,      \* whether s3_processor exists and whether the bucket answers
    now,        \* the clock (datetime.utcnow), in seconds
    sw,         \* clear_old_status in progress: its locals
    fc,         \* force_complete_status in progress: the task id, or 0
    t_last,     \* history: the last status each task had
    k_pc,       \* process_pdf_with_table_extraction, text step: position
    k_fail,     \* what extract_text_from_pdf meets: a failure, or none
    k_data,     \* local pdf_data
    k_res,      \* what the pipeline returns for it
    a_pc,       \* extract_tables_with_ai: position
    a_model,    \* self.model_type, or "none" without self.model
    a_targets,  \* the target_tables argument
    a_out,      \* what the model and the parsing do at each call
    a_i,        \* the loop index (1-based)
    a_results,  \* local results: table type -> the call its rows came from
    a_metrics,  \* processing_metrics, tables_processed: the calls listed
    q_pc,       \* setup_athena_compatibility: position
    q_in,       \* the bucket and the catalog the call meets
    q_res,      \* local results: its keys
    q_tried,    \* history: the steps called, in order
    q_made,     \* what the call wrote: the manifest object, the database, the table
    b_pc,       \* _find_natural_break: position
    b_in,       \* its arguments: text, start, preferred_end
    b_ret       \* what it returns

chunkVars == <<c_pc, c_raw, c_text, c_start, c_iter, c_chunks, c_prev>>
cleanVars == <<n_pc, n_in, n_once, n_twice>>
parseVars == <<p_pc, p_in, p_text, p_cands, p_i, p_ret>>
extractVars == <<x_pc, x_impl, x_doc, x_i, x_text, x_info, x_res>>
storeVars == <<s3, glue, athena>>
writerVars == <<w_pc, w_entry, w_ret, h_calls, h_done, h_overlap, h_faults,
                h_first>>
genVars == <<g_pc, g_tables, g_client, g_files, g_s3>>
taskVars == <<processing_status, u_pc, u_env, now, sw, fc, t_last>>
classifyVars == <<k_pc, k_fail, k_data, k_res>>
aiVars == <<a_pc, a_model, a_targets, a_out, a_i, a_results, a_metrics>>
athenaVars == <<q_pc, q_in, q_res, q_tried, q_made>>
breakVars == <<b_pc, b_in, b_ret>>
vars == <<mode, chunkVars, cleanVars, parseVars, extractVars, storeVars,
          writerVars, genVars, taskVars, classifyVars, aiVars, athenaVars,
          breakVars>>

\* What each component leaves alone.
outsideChunk == <<mode, cleanVars, parseVars, extractVars, storeVars,
                  writerVars, genVars, taskVars, classifyVars, aiVars,
                  athenaVars, breakVars>>
outsideClean == <<mode, chunkVars, parseVars, extractVars, storeVars,
                  writerVars, genVars, taskVars, classifyVars, aiVars,
                  athenaVars, breakVars>>
outsideParse == <<mode, chunkVars, cleanVars, extractVars, storeVars,
                  writerVars, genVars, taskVars, classifyVars, aiVars,
                  athenaVars, breakVars>>
outsideExtract == <<mode, chunkVars, cleanVars, parseVars, storeVars,
                    writerVars, genVars, taskVars, classifyVars, aiVars,
                    athenaVars, breakVars>>
outsideWriter == <<mode, chunkVars, cleanVars, parseVars, extractVars,
                   genVars, taskVars, classifyVars, aiVars, athenaVars,
                   breakVars>>
outsideGen == <<mode, chunkVars, cleanVars, parseVars, extractVars,
                writerVars, taskVars, classifyVars, aiVars, athenaVars,
                breakVars>>
outsideTask == <<mode, chunkVars, cleanVars, parseVars, extractVars,
                 storeVars, writerVars, genVars, classifyVars, aiVars,
                 athenaVars, breakVars>>
outsideClassify == <<mode, chunkVars, cleanVars, parseVars, extractVars,
                     storeVars, writerVars, genVars, taskVars, aiVars,
                     athenaVars, breakVars>>
outsideAi == <<mode, chunkVars, cleanVars, parseVars, extractVars, storeVars,
               writerVars, genVars, taskVars, classifyVars, athenaVars,
               breakVars>>
outsideAthena == <<mode, chunkVars, cleanVars, parseVars, extractVars,
                   storeVars, writerVars, genVars, taskVars, classifyVars,
                   aiVars, breakVars>>
outsideBreak == <<mode, chunkVars, cleanVars, parseVars, extractVars,
                  storeVars, writerVars, genVars, taskVars, classifyVars,
                  aiVars, athenaVars>>

\* The background units that run the snapshot writer.
Writers == {1, 2}

NoObjects == [k \in {} |-> 0]
NoTables == [k \in {} |-> {}]

\* The uploads a behaviour may make, by task.
TaskIds == {1, 2, 3}

\* No sweep in progress / no sweep finished yet.
NoSweep == [pc |-> "idle", time |-> 0, size |-> 0, seen |-> {}, remove |-> {}]

\* A unit that has not prepared a write yet.
NoFailure == [site |-> "", class |-> "", text |-> {}]
NoData == [error |-> FALSE, is_encrypted |-> FALSE,
           is_dependency_error |-> FALSE, is_encrypted_error |-> FALSE]
NoResult == [error |-> FALSE, error_type |-> ""]
NoCatalog == [parquet |-> FALSE, s3_fault |-> "", glue_client |-> FALSE,
              database |-> FALSE, table |-> FALSE, glue_fault |-> ""]
NothingMade == [manifest |-> FALSE, database |-> FALSE, table |-> ""]
NoCall == [text |-> <<>>, start |-> 0, preferred_end |-> 0]
NoEntry == [branch |-> "", version |-> -1, part |-> -1, df |-> 0, txn |-> 0]

\* The state of a component that a behaviour does not exercise.
ChunkIdle ==
    /\ c_pc = "idle" /\ c_raw = <<>> /\ c_text = <<>> /\ c_start = 0
    /\ c_iter = 0 /\ c_chunks = <<>> /\ c_prev = <<>>

CleanIdle ==
    n_pc = "idle" /\ n_in = <<>> /\ n_once = <<>> /\ n_twice = <<>>

ParseIdle ==
    /\ p_pc = "idle" /\ p_in = <<>> /\ p_text = <<>> /\ p_cands = <<>>
    /\ p_i = 0 /\ p_ret = <<>>

ExtractIdle ==
    /\ x_pc = "idle" /\ x_impl = "" /\ x_doc = <<>> /\ x_i = 0
    /\ x_text = <<>> /\ x_info = <<>> /\ x_res = <<>>

StoreIdle ==
    s3 = NoObjects /\ glue = NoTables /\ athena = [manifest |-> 0, glue |-> 0]

WriterIdle ==
    /\ w_pc = [w \in Writers |-> "idle"]
    /\ w_entry = [w \in Writers |-> NoEntry]
    /\ w_ret = [w \in Writers |-> ""]
    /\ h_calls = 0 /\ h_done = 0 /\ h_overlap = FALSE /\ h_faults = 0
    /\ h_first = <<>>

GenIdle ==
    /\ g_pc = "idle" /\ g_tables = <<>> /\ g_client = FALSE
    /\ g_files = {} /\ g_s3 = <<>>

TaskIdle ==
    /\ processing_status = [k \in {} |-> 0]
    /\ u_pc = [t \in TaskIds |-> "none"]
    /\ u_env = [processor |-> TRUE, s3_up |-> TRUE]
    /\ now = 0 /\ sw = NoSweep /\ fc = 0
    /\ t_last = [t \in TaskIds |-> "none"]

ClassifyIdle ==
    k_pc = "idle" /\ k_fail = NoFailure /\ k_data = NoData /\ k_res = NoResult

AiIdle ==
    /\ a_pc = "idle" /\ a_model = "" /\ a_targets = <<>> /\ a_out = <<>>
    /\ a_i = 0 /\ a_results = [k \in {} |-> 0] /\ a_metrics = <<>>

AthenaIdle ==
    /\ q_pc = "idle" /\ q_in = NoCatalog /\ q_res = {}
    /\ q_tried = <<>> /\ q_made = NothingMade

BreakIdle ==
    b_pc = "idle" /\ b_in = NoCall /\ b_ret = 0

IdleExcept(ms) ==
    /\ IF "chunk" \in ms THEN TRUE ELSE ChunkIdle
    /\ IF "clean" \in ms THEN TRUE ELSE CleanIdle
    /\ IF "parse" \in ms THEN TRUE ELSE ParseIdle
    /\ IF "extract" \in ms THEN TRUE ELSE ExtractIdle
    /\ IF "store" \in ms THEN TRUE ELSE StoreIdle
    /\ IF "writer" \in ms THEN TRUE ELSE WriterIdle
    /\ IF "gen" \in ms THEN TRUE ELSE GenIdle
    /\ IF "task" \in ms THEN TRUE ELSE TaskIdle
    /\ IF "classify" \in ms THEN TRUE ELSE ClassifyIdle
    /\ IF "ai" \in ms THEN TRUE ELSE AiIdle
    /\ IF "athena" \in ms THEN TRUE ELSE AthenaIdle
    /\ IF "break" \in ms THEN TRUE ELSE BreakIdle

----------------------------------------------------------------------------
(* Texts                                                                   *)

L(n) == [c |-> "a", n |-> n]          \* n letters
Ch(c) == [c |-> c, n |-> 1]           \* one character

Whitespace == {" ", "\n", "\t"}       \* the characters \s and str.strip() match

IsWs(c) == c \in Whitespace

RECURSIVE TextLen(_)
TextLen(t) == IF t = <<>> THEN 0 ELSE Head(t).n + TextLen(Tail(t))

\* text[i], 0-based; "" when i is outside the text
RECURSIVE CharAt(_, _)
CharAt(t, i) ==
    IF t = <<>> \/ i < 0 THEN ""
    ELSE IF i < Head(t).n THEN Head(t).c
    ELSE CharAt(Tail(t), i - Head(t).n)

\* The positions of the characters that are not letters.
RECURSIVE SpecialPosFrom(_, _)
SpecialPosFrom(t, off) ==
    IF t = <<>> THEN {}
    ELSE (IF Head(t).c = "a" THEN {} ELSE off .. (off + Head(t).n - 1))
         \cup SpecialPosFrom(Tail(t), off + Head(t).n)

SpecialPos(t) == SpecialPosFrom(t, 0)

SetMin(S) == CHOOSE x \in S : \A y \in S : x <= y
SetMax(S) == CHOOSE x \in S : \A y \in S : x >= y
Max2(a, b) == IF a >= b THEN a ELSE b
Min2(a, b) == IF a <= b THEN a ELSE b
Abs(x) == IF x < 0 THEN -x ELSE x

----------------------------------------------------------------------------
(* PDFProcessingService._clean_text                                        *)

\* re.sub(r'\s\s', ' ', text): pairs of whitespace become one space.
RECURSIVE CollapsePairs(_)
CollapsePairs(t) ==
    IF t = <<>> THEN <<>>
    ELSE IF Len(t) >= 2 /\ IsWs(t[1].c) /\ IsWs(t[2].c)
         THEN <<Ch(" ")>> \o CollapsePairs(SubSeq(t, 3, Len(t)))
         ELSE <<Head(t)>> \o CollapsePairs(Tail(t))

\* re.sub(r'\s+', ' ', text): every maximal run of whitespace becomes one space.
RECURSIVE CollapseWhitespace(_)
CollapseWhitespace(t) ==
    IF t = <<>> THEN <<>>
    ELSE IF IsWs(Head(t).c)
         THEN IF Len(t) >= 2 /\ IsWs(t[2].c)
              THEN CollapseWhitespace(Tail(t))
              ELSE <<Ch(" ")>> \o CollapseWhitespace(Tail(t))
         ELSE <<Head(t)>> \o CollapseWhitespace(Tail(t))

\* The last index of the whitespace run that starts at index i (i - 1 if t[i] is none).
RECURSIVE WsRunEnd(_, _)
WsRunEnd(t, i) ==
    IF i <= Len(t) /\ IsWs(t[i].c) THEN WsRunEnd(t, i + 1) ELSE i - 1

\* re.sub(r'\n\s*\n', '\n\n', text): leftmost matches, \s* greedy with backtracking
\* to the last newline of the whitespace run.
RECURSIVE CollapseBlankLinesFrom(_, _)
CollapseBlankLinesFrom(t, i) ==
    IF i > Len(t) THEN <<>>
    ELSE IF t[i].c = "\n"
         THEN LET m == WsRunEnd(t, i + 1)
                  nl == {k \in (i + 1) .. m : t[k].c = "\n"}
              IN IF nl = {} THEN <<t[i]>> \o CollapseBlankLinesFrom(t, i + 1)
                 ELSE <<Ch("\n"), Ch("\n")>> \o CollapseBlankLinesFrom(t, SetMax(nl) + 1)
         ELSE <<t[i]>> \o CollapseBlankLinesFrom(t, i + 1)

CollapseBlankLines(t) == CollapseBlankLinesFrom(t, 1)

\* str.strip()
RECURSIVE LStrip(_)
LStrip(t) == IF t # <<>> /\ IsWs(Head(t).c) THEN LStrip(Tail(t)) ELSE t

RECURSIVE RStrip(_)
RStrip(t) ==
    IF t # <<>> /\ IsWs(t[Len(t)].c) THEN RStrip(SubSeq(t, 1, Len(t) - 1)) ELSE t

Strip(t) == RStrip(LStrip(t))

clean_text(t) == Strip(CollapseBlankLines(CollapseWhitespace(t)))

----------------------------------------------------------------------------
(* PDFProcessingService.__init__: the chunking configuration               *)

chunk_size == 1000
chunk_overlap == 200
min_chunk_size == 100
BreakWindow == 50
IterationSlack == 100

----------------------------------------------------------------------------
(* PDFProcessingService._find_natural_break                                *)

break_chars ==
    << <<"\n", "\n">>, <<".", " ">>, <<".", "\n">>, <<"!", " ">>, <<"!", "\n">>,
       <<"?", " ">>, <<"?", "\n">>, <<";", " ">>, <<";", "\n">>, <<":", " ">>,
       <<":", "\n">>, <<",", " ">>, <<",", "\n">> >>

\* text[lo:hi].find(bc): the offset of the first occurrence in the slice, or -1.
\* An occurrence can only start at a character that is not a letter.
Find(t, lo, hi, bc) ==
    LET occ == {p \in SpecialPos(t) :
                    /\ p >= lo
                    /\ p + 2 <= hi
                    /\ CharAt(t, p) = bc[1]
                    /\ CharAt(t, p + 1) = bc[2]}
    IN IF occ = {} THEN -1 ELSE SetMin(occ) - lo

\* The loop over break_chars: the position after the first occurrence of each kind
\* found in the window; a later kind replaces the best one only when strictly nearer
\* to preferred_end, so the result is that of the first kind at the least distance.
\* -1 stands for best_pos = None.
BestBreak(t, search_start, search_end, preferred_end) ==
    LET found == {k \in 1 .. Len(break_chars) :
                     Find(t, search_start, search_end, break_chars[k]) # -1}
        absolute_pos(k) ==
            search_start + Find(t, search_start, search_end, break_chars[k]) + 2
        distance(k) == Abs(absolute_pos(k) - preferred_end)
        best == CHOOSE k \in found :
                    \A j \in found :
                        distance(k) < distance(j) \/ (distance(k) = distance(j) /\ k <= j)
    IN IF found = {} THEN -1 ELSE absolute_pos(best)

\* for i in range(preferred_end, search_start - 1, -1): text[i] == ' '
NearestSpace(t, search_start, preferred_end) ==
    LET sp == {i \in SpecialPos(t) :
                  i >= search_start /\ i <= preferred_end /\ CharAt(t, i) = " "}
    IN IF sp = {} THEN -1 ELSE SetMax(sp)

find_natural_break(t, start, preferred_end) ==
    IF preferred_end >= TextLen(t) THEN TextLen(t)
    ELSE IF preferred_end <= start THEN preferred_end
    ELSE LET search_window == Min2(BreakWindow, (preferred_end - start) \div 2)
             search_start == Max2(preferred_end - search_window, start)
             search_end == Min2(preferred_end + search_window, TextLen(t))
             best_pos == BestBreak(t, search_start, search_end, preferred_end)
             sp == NearestSpace(t, search_start, preferred_end)
         IN IF best_pos # -1 THEN best_pos
            ELSE IF sp # -1 THEN sp + 1
            ELSE preferred_end

----------------------------------------------------------------------------
(* PDFProcessingService.create_text_chunks                                 *)

\* text[s:e].strip() as the bounds <<from, to>> of what is left of the slice.
RECURSIVE SkipWsRight(_, _, _)
SkipWsRight(t, i, hi) ==
    IF i < hi /\ IsWs(CharAt(t, i)) THEN SkipWsRight(t, i + 1, hi) ELSE i

RECURSIVE SkipWsLeft(_, _, _)
SkipWsLeft(t, lo, i) ==
    IF i > lo /\ IsWs(CharAt(t, i - 1)) THEN SkipWsLeft(t, lo, i - 1) ELSE i

StripSlice(t, s, e) ==
    LET hi == Min2(e, TextLen(t))
        lo == Min2(Max2(s, 0), hi)
        from == SkipWsRight(t, lo, hi)
    IN <<from, SkipWsLeft(t, from, hi)>>

\* len(text[from:to].split()) for a stripped slice
WordCount(t, from, to) ==
    IF from >= to THEN 0
    ELSE 1 + Cardinality({p \in SpecialPos(t) :
                            /\ p >= from
                            /\ p + 1 < to
                            /\ IsWs(CharAt(t, p))
                            /\ ~IsWs(CharAt(t, p + 1))})

\* The chunk_info dictionary with char_count and word_count exchanged.
ChunkInfoSwapped(t, chunk_index, start, end) ==
    LET b == StripSlice(t, start, end)
    IN [chunk_index |-> chunk_index, start_char |-> start, end_char |-> end,
        char_count |-> WordCount(t, b[1], b[2]), word_count |-> b[2] - b[1]]

\* The chunk_info dictionary (text is text[start:end].strip(), kept as its counts).
ChunkInfo(t, chunk_index, start, end) ==
    LET b == StripSlice(t, start, end)
    IN [chunk_index |-> chunk_index, start_char |-> start, end_char |-> end,
        char_count |-> b[2] - b[1], word_count |-> WordCount(t, b[1], b[2])]

\* len(chunk_text) of the slice
ChunkTextLen(t, start, end) ==
    LET b == StripSlice(t, start, end) IN b[2] - b[1]

\* The end of the chunk that starts at `start`.
ChunkEnd(t, start) ==
    IF start + chunk_size < TextLen(t)
    THEN find_natural_break(t, start, start + chunk_size)
    ELSE TextLen(t)

\* The advance with the overlap added instead of subtracted.
NextStartSkipping(old_start, end, len) ==
    end + chunk_overlap

\* The advance that steps back by twice the overlap.
NextStartDoubleOverlap(old_start, end, len) ==
    LET s1 == IF end - 2 * chunk_overlap < 0 THEN 0
              ELSE end - 2 * chunk_overlap
    IN  IF s1 <= old_start THEN old_start + Max2(1, chunk_size \div 2) ELSE s1

\* The advance without the guard of lines 181-184.
NextStartUnforced(old_start, end, len) ==
    IF end - chunk_overlap < 0 THEN 0 ELSE end - chunk_overlap

\* "Avancar com sobreposicao" and the two progress guards.
NextStart(old_start, end, len) ==
    LET s1 == IF end - chunk_overlap < 0 THEN 0 ELSE end - chunk_overlap
        s2 == IF s1 <= old_start THEN old_start + Max2(1, chunk_size \div 2) ELSE s1
    IN IF s2 >= end /\ end < len THEN end ELSE s2

max_iterations(t) == TextLen(t) \div 100 + IterationSlack

\* The emission test reversed.
KeepsChunkReversed(n) == n < min_chunk_size

\* if len(chunk_text) >= self.min_chunk_size
KeepsChunk(n) == n >= min_chunk_size

----------------------------------------------------------------------------
(* Inputs of create_text_chunks                                            *)

MaxRuns == 3            \* letter runs in an input text
LongLen == 100000       \* the long text without any whitespace

RunLens == {800, 960, 1030}

Separators == { <<Ch(" ")>>, <<Ch("."), Ch(" ")>>, <<Ch(","), Ch(" ")>>,
                <<Ch(" "), Ch("\n"), Ch(" ")>> }

\* Texts of k letter runs with a separator between neighbours.
RECURSIVE TextsOfRuns(_)
TextsOfRuns(k) ==
    IF k = 1 THEN {<<L(n)>> : n \in RunLens}
    ELSE {t \o s \o <<L(n)>> : t \in TextsOfRuns(k - 1), s \in Separators, n \in RunLens}

\* Texts around the thresholds of the configuration.
EdgeInputs ==
    {<<>>, <<L(40), Ch(" "), Ch(" "), L(40)>>, <<L(99)>>, <<L(100)>>,
     <<Ch(" "), L(150), Ch("\n")>>, <<L(200)>>, <<L(201)>>, <<L(1000)>>, <<L(1001)>>,
     <<L(40), Ch("."), Ch(" "), L(400), Ch("\t"), L(40)>>}

ChunkInputs ==
    EdgeInputs \cup {<<L(LongLen)>>}
    \cup UNION {TextsOfRuns(k) : k \in 1 .. MaxRuns}

----------------------------------------------------------------------------
(* create_text_chunks as a process: the entry, one step per loop iteration, *)
(* and the return                                                          *)

InitChunk ==
    /\ mode = "chunk"
    /\ IdleExcept({"chunk"})
    /\ c_pc = "start"
    /\ c_raw \in ChunkInputs
    /\ c_text = <<>>
    /\ c_start = 0
    /\ c_iter = 0
    /\ c_chunks = <<>>
    /\ c_prev = <<>>

\* Lines 112-132: normalise, return the single chunk of a short text, or enter the loop.
ChunkStart ==
    /\ mode = "chunk"
    /\ c_pc = "start"
    /\ LET text == clean_text(c_raw)
       IN /\ c_text' = text
          /\ IF TextLen(text) < min_chunk_size
             THEN /\ c_chunks' = <<[chunk_index |-> 0, start_char |-> 0,
                                    end_char |-> TextLen(text),
                                    char_count |-> TextLen(text),
                                    word_count |-> WordCount(text, 0, TextLen(text))]>>
                  /\ c_pc' = "done"
             ELSE /\ c_chunks' = <<>>
                  /\ c_pc' = "loop"
    /\ c_start' = 0
    /\ c_iter' = 0
    /\ UNCHANGED <<c_raw, c_prev, outsideChunk>>

\* Lines 134-191: one iteration of the while loop.
ChunkLoop ==
    /\ mode = "chunk"
    /\ c_pc = "loop"
    /\ c_start < TextLen(c_text)
    /\ c_iter < max_iterations(c_text)
    /\ LET end == ChunkEnd(c_text, c_start)
       IN /\ c_chunks' = IF KeepsChunk(ChunkTextLen(c_text, c_start, end))
                         THEN Append(c_chunks, ChunkInfo(c_text, Len(c_chunks), c_start, end))
                         ELSE c_chunks
          /\ c_start' = NextStart(c_start, end, TextLen(c_text))
          /\ c_prev' = <<c_start, end>>
    /\ c_iter' = c_iter + 1
    /\ UNCHANGED <<c_pc, c_raw, c_text, outsideChunk>>

\* Lines 193-199: the loop condition fails and the list is returned.
ChunkReturn ==
    /\ mode = "chunk"
    /\ c_pc = "loop"
    /\ ~(c_start < TextLen(c_text) /\ c_iter < max_iterations(c_text))
    /\ c_pc' = "done"
    /\ UNCHANGED <<c_raw, c_text, c_start, c_iter, c_chunks, c_prev, outsideChunk>>

NextChunk == ChunkStart \/ ChunkLoop \/ ChunkReturn

SpecChunk == InitChunk /\ [][NextChunk]_vars

----------------------------------------------------------------------------
(* _clean_text applied once and then to its own result                     *)

MaxCleanLen == 5        \* characters in a text given to _clean_text

CleanAlphabet == {L(1), Ch(" "), Ch("\n"), Ch("\t")}

RECURSIVE TextsOfLen(_)
TextsOfLen(k) ==
    IF k = 0 THEN {<<>>}
    ELSE {Append(t, x) : t \in TextsOfLen(k - 1), x \in CleanAlphabet}

CleanInputs == UNION {TextsOfLen(k) : k \in 0 .. MaxCleanLen}

InitClean ==
    /\ mode = "clean"
    /\ IdleExcept({"clean"})
    /\ n_pc = "in"
    /\ n_in \in CleanInputs
    /\ n_once = <<>>
    /\ n_twice = <<>>

CleanOnce ==
    /\ mode = "clean"
    /\ n_pc = "in"
    /\ n_once' = clean_text(n_in)
    /\ n_pc' = "once"
    /\ UNCHANGED <<n_in, n_twice, outsideClean>>

CleanTwice ==
    /\ mode = "clean"
    /\ n_pc = "once"
    /\ n_twice' = clean_text(n_once)
    /\ n_pc' = "twice"
    /\ UNCHANGED <<n_in, n_once, outsideClean>>

NextClean == CleanOnce \/ CleanTwice

SpecClean == InitClean /\ [][NextClean]_vars

\* C7: _clean_text is idempotent: applied to its own result it changes nothing.
C7_CleanIdempotent ==
    (mode = "clean" /\ n_pc = "twice") => n_twice = n_once

C7_Witness ==
    /\ mode = "clean"
    /\ n_pc = "twice"
    /\ n_once # n_in
    /\ Len(n_once) >= 3
    /\ Len(n_in) > Len(n_once)

----------------------------------------------------------------------------
(* Properties of create_text_chunks                                        *)

ChunkDone == mode = "chunk" /\ c_pc = "done"

HasNoWhitespace(t) == \A p \in SpecialPos(t) : ~IsWs(CharAt(t, p))

\* Position p of the text lies in [start_char, end_char) of some returned chunk.
CoveredByChunk(p) ==
    \E i \in 1 .. Len(c_chunks) : c_chunks[i].start_char <= p /\ p < c_chunks[i].end_char

\* The leftmost position outside every chunk, if there is one, is 0 or the end_char
\* of a chunk: these are the positions to look at.
GapCandidates ==
    {0} \cup {c_chunks[i].end_char : i \in 1 .. Len(c_chunks)}

\* C4: for every input text the [start_char, end_char) ranges of the returned chunks
\* lie inside the normalized text and together cover every position of it.
C4_ChunkCoverage ==
    ChunkDone =>
        /\ \A i \in 1 .. Len(c_chunks) :
              /\ 0 <= c_chunks[i].start_char
              /\ c_chunks[i].end_char <= TextLen(c_text)
        /\ \A p \in GapCandidates : p < TextLen(c_text) => CoveredByChunk(p)

C4_Witness ==
    /\ ChunkDone
    /\ Len(c_chunks) >= 3
    /\ \E i \in 1 .. Len(c_chunks) :
          /\ c_chunks[i].end_char < TextLen(c_text)
          /\ c_chunks[i].end_char # c_chunks[i].start_char + chunk_size

\* while start < len(text) and iteration_count < max_iterations
LoopCondition == c_start < TextLen(c_text) /\ c_iter < max_iterations(c_text)

\* C5: create_text_chunks terminates for every input: iteration_count, which every
\* loop step increases by one, never exceeds len(text) / 100 + 100, the loop is left
\* as soon as its condition fails, and a text of at least min_chunk_size characters
\* without any whitespace yields at least one chunk.
C5_ChunkTermination ==
    mode = "chunk" =>
        /\ c_pc \in {"loop", "done"} => c_iter <= max_iterations(c_text)
        /\ c_pc \in {"loop", "done"} => (c_iter = 0 <=> c_prev = <<>>)
        /\ (c_pc = "done" /\ TextLen(c_text) >= min_chunk_size) => ~LoopCondition
        /\ (c_pc = "done" /\ HasNoWhitespace(c_text) /\ TextLen(c_text) >= min_chunk_size)
              => Len(c_chunks) >= 1

C5_Witness ==
    /\ ChunkDone
    /\ c_text = <<L(LongLen)>>
    /\ c_iter > IterationSlack
    /\ Len(c_chunks) >= 1

\* C6: in the returned list every chunk but the last has a trimmed text of at least
\* min_chunk_size characters, unless the list is the single whole-text chunk of a text
\* shorter than min_chunk_size.
C6_MinChunkSize ==
    (ChunkDone /\ TextLen(c_text) >= min_chunk_size) =>
        \A i \in 1 .. (Len(c_chunks) - 1) : c_chunks[i].char_count >= min_chunk_size

C6_Witness ==
    /\ ChunkDone
    /\ TextLen(c_text) >= min_chunk_size
    /\ Len(c_chunks) >= 2
    /\ c_chunks[1].char_count < c_chunks[1].end_char - c_chunks[1].start_char

----------------------------------------------------------------------------
(* parse_ai_response.  A response is a text over the characters [ ] , 1    *)
(* (any JSON scalar), letters (prose), whitespace and the backquote; the   *)
(* fence of three backquotes is the one element Ch("fence") and the word   *)
(* json after it the one element Ch("json").                               *)

Fence == Ch("fence")
Open(n) == [c |-> "[", n |-> n]
Close(n) == [c |-> "]", n |-> n]

IsFence(t, i) == i \in DOMAIN t /\ t[i].c = "fence"
IsJsonFence(t, i) == IsFence(t, i) /\ i < Len(t) /\ t[i + 1].c = "json"

\* text[from:] up to the next fence: .split(...)[1].split(fence)[0]
UpToFence(t, from) ==
    LET fences == {j \in from .. Len(t) : IsFence(t, j)}
        to == IF fences = {} THEN Len(t) ELSE SetMin(fences) - 1
    IN  SubSeq(t, from, to)

StripFences(t) ==
    IF \E i \in DOMAIN t : IsJsonFence(t, i)
    THEN UpToFence(t, SetMin({i \in DOMAIN t : IsJsonFence(t, i)}) + 2)
    ELSE IF \E i \in DOMAIN t : IsFence(t, i)
         THEN UpToFence(t, SetMin({i \in DOMAIN t : IsFence(t, i)}) + 1)
         ELSE t

\* Estrategia 1: response_text[find('['):rfind(']') + 1]
SpanCandidate(t) ==
    LET opens == {i \in DOMAIN t : t[i].c = "["}
        closes == {i \in DOMAIN t : t[i].c = "]"}
    IN  IF opens # {} /\ closes # {} /\ SetMax(closes) > SetMin(opens)
        THEN <<SubSeq(t, SetMin(opens), SetMax(closes))>>
        ELSE <<>>

\* Estrategia 2: re.findall(r'\[.*?\]', response_text, re.DOTALL), scanning
\* from element `from`: leftmost '[' to the first ']' after it, then on.
RECURSIVE BlocksFrom(_, _)
BlocksFrom(t, from) ==
    LET opens == {i \in from .. Len(t) : t[i].c = "["}
        i == SetMin(opens)
        closes == {j \in i + 1 .. Len(t) : t[j].c = "]"}
        j == SetMin(closes)
    IN  IF opens = {} THEN <<>>
        ELSE IF closes = {} THEN <<>>
        ELSE <<SubSeq(t, i, j - 1) \o <<Close(1)>>>> \o BlocksFrom(t, j + 1)

json_candidates(t) == SpanCandidate(t) \o BlocksFrom(t, 1)

\* Nesting depth at which json.loads gives up with RecursionError.
RecursionLimit == 1000

\* json.loads(t), reading t[i..] with `depth` arrays open.  st is what the
\* decoder expects next: "value", "first" (a value or ']'), "after" (',' or
\* ']') or "end".  The outcome is "list" (a non-empty list), "empty" (the
\* list []), "scalar", "JSONDecodeError" or "RecursionError".
RECURSIVE Scan(_, _, _, _, _)
Scan(t, i, depth, st, kind) ==
    IF i > Len(t)
    THEN IF st = "end" THEN kind ELSE "JSONDecodeError"
    ELSE LET c == t[i].c
             n == t[i].n
         IN  CASE IsWs(c) -> Scan(t, i + 1, depth, st, kind)
               [] c = "[" /\ st \in {"value", "first"} ->
                    IF depth + n > RecursionLimit THEN "RecursionError"
                    ELSE Scan(t, i + 1, depth + n, "first",
                              IF depth + n >= 2 THEN "list" ELSE "empty")
               [] c = "]" /\ st \in {"first", "after"} /\ n <= depth ->
                    Scan(t, i + 1, depth - n,
                         IF depth = n THEN "end" ELSE "after", kind)
               [] c = "1" /\ st \in {"value", "first"} ->
                    Scan(t, i + 1, depth,
                         IF depth = 0 THEN "end" ELSE "after",
                         IF depth = 0 THEN "scalar" ELSE "list")
               [] c = "row" /\ st \in {"value", "first"} ->
                    Scan(t, i + 1, depth,
                         IF depth = 0 THEN "end" ELSE "after",
                         IF depth = 0 THEN "scalar" ELSE "list")
               [] c = "1" /\ st \in {"after", "end"} /\ i > 1
                          /\ t[i - 1].c = "1" ->
                    Scan(t, i + 1, depth, st, kind)
               [] c = "," /\ st = "after" ->
                    Scan(t, i + 1, depth, "value", kind)
               [] OTHER -> "JSONDecodeError"

json_loads(t) == Scan(t, 1, 0, "value", "scalar")

\* The value a text decodes to: the text without its whitespace.
Decoded(t) == SelectSeq(t, LAMBDA r : ~IsWs(r.c))

\* Responses: up to MaxSegments pieces of prose, JSON and fences.
MaxSegments == 3
DeepNesting == 100000

ResponseSegments ==
    { <<L(3)>>, <<Ch(" ")>>, <<Ch(",")>>, <<Ch("1")>>,
      <<Open(1)>>, <<Close(1)>>,
      <<Open(1), Close(1)>>,
      <<Open(1), Ch("1"), Close(1)>>,
      <<Open(1), Ch("row"), Close(1)>>,
      <<Open(1), L(1)>>,
      <<Open(DeepNesting), Close(DeepNesting)>>,
      <<Fence>>, <<Fence, Ch("json")>> }

RECURSIVE ResponsesOf(_)
ResponsesOf(k) ==
    IF k = 0 THEN {<<>>}
    ELSE {s \o r : s \in ResponseSegments, r \in ResponsesOf(k - 1)}

Responses == UNION {ResponsesOf(k) : k \in 0 .. MaxSegments}

InitParse ==
    /\ mode = "parse"
    /\ IdleExcept({"parse"})
    /\ p_pc = "start"
    /\ p_in \in Responses
    /\ p_text = <<>>
    /\ p_cands = <<>>
    /\ p_i = 0
    /\ p_ret = <<>>

\* lines 540-560: fences, strip, the candidates
ParseCandidates ==
    /\ mode = "parse"
    /\ p_pc = "start"
    /\ p_text' = Strip(StripFences(p_in))
    /\ p_cands' = json_candidates(p_text')
    /\ p_i' = 1
    /\ p_pc' = "try"
    /\ UNCHANGED <<p_in, p_ret, outsideParse>>

\* lines 563-573 and 581-583: one pass of the for loop.  A non-empty list
\* is returned; [] and JSONDecodeError go on to the next candidate; any
\* other exception leaves the loop for the outer handler, which returns [].
ParseTry ==
    /\ mode = "parse"
    /\ p_pc = "try"
    /\ p_i <= Len(p_cands)
    /\ LET data == json_loads(p_cands[p_i])
       IN  CASE data = "list" ->
                  /\ p_ret' = [raised |-> FALSE, data |-> Decoded(p_cands[p_i])]
                  /\ p_pc' = "done"
                  /\ p_i' = p_i
             [] data \in {"empty", "scalar", "JSONDecodeError"} ->
                  /\ p_i' = p_i + 1
                  /\ UNCHANGED <<p_ret, p_pc>>
             [] OTHER ->
                  /\ p_ret' = [raised |-> FALSE, data |-> <<>>]
                  /\ p_pc' = "done"
                  /\ p_i' = p_i
    /\ UNCHANGED <<p_in, p_text, p_cands, outsideParse>>

\* lines 575-579: no candidate was accepted
ParseNone ==
    /\ mode = "parse"
    /\ p_pc = "try"
    /\ p_i > Len(p_cands)
    /\ p_ret' = [raised |-> FALSE, data |-> <<>>]
    /\ p_pc' = "done"
    /\ UNCHANGED <<p_in, p_text, p_cands, p_i, outsideParse>>

NextParse == ParseCandidates \/ ParseTry \/ ParseNone

SpecParse == InitParse /\ [][NextParse]_vars

\* C8: parse_ai_response returns a list and never raises; the list is empty
\* exactly when no candidate of the fence-stripped text decodes to a
\* non-empty JSON list, and otherwise it is the first candidate that does.
C8_FirstParsingCandidate ==
    (mode = "parse" /\ p_pc = "done") =>
        LET cands == json_candidates(Strip(StripFences(p_in)))
            good == {i \in DOMAIN cands : json_loads(cands[i]) = "list"}
        IN  /\ ~p_ret.raised
            /\ IF good = {} THEN p_ret.data = <<>>
               ELSE p_ret.data = Decoded(cands[SetMin(good)])

----------------------------------------------------------------------------
(* extract_text_from_pdf, in PDFProcessingService and in S3PDFProcessor.   *)
(* A PDF is whether PdfReader opens it, its encryption, and what           *)
(* page.extract_text() does on each page: "text", "empty" or "raises".     *)
(* The text of page p is p letters.                                        *)

MaxPages == 3

PageOutcomes == {"text", "empty", "raises"}

RECURSIVE PagesOf(_)
PagesOf(k) ==
    IF k = 0 THEN {<<>>}
    ELSE {Append(s, o) : s \in PagesOf(k - 1), o \in PageOutcomes}

Documents ==
    [opens : BOOLEAN, encrypted : {"no", "decrypts", "locked"},
     pages : UNION {PagesOf(k) : k \in 0 .. MaxPages}]

PageText(doc, p) == IF doc.pages[p] = "text" THEN <<L(p)>> ELSE <<>>

PageBreak == <<Ch("\n"), Ch("\n")>>

Failure ==
    [ok |-> FALSE, full_text |-> <<>>, pages |-> <<>>, page_count |-> 0]

InitExtract ==
    /\ mode = "extract"
    /\ IdleExcept({"extract"})
    /\ x_pc = "open"
    /\ x_impl \in {"PDFProcessingService", "S3PDFProcessor"}
    /\ x_doc \in Documents
    /\ (x_impl = "PDFProcessingService" => x_doc.encrypted = "no")
    /\ x_i = 0
    /\ x_text = <<>>
    /\ x_info = <<>>
    /\ x_res = <<>>

\* open(), PdfReader() and, in S3PDFProcessor, decrypt('')
ExtractOpen ==
    /\ mode = "extract"
    /\ x_pc = "open"
    /\ IF x_doc.opens /\ x_doc.encrypted # "locked"
       THEN x_pc' = "pages" /\ x_res' = x_res
       ELSE x_pc' = "done" /\ x_res' = Failure
    /\ UNCHANGED <<x_impl, x_doc, x_i, x_text, x_info, outsideExtract>>

\* PDFProcessingService: one pass of the for loop, with its own try/except
ServicePage ==
    /\ mode = "extract"
    /\ x_pc = "pages"
    /\ x_impl = "PDFProcessingService"
    /\ x_i < Len(x_doc.pages)
    /\ LET p == x_i + 1
       IN  /\ x_i' = p
           /\ IF x_doc.pages[p] = "raises"
              THEN /\ x_text' = x_text
                   /\ x_info' = Append(x_info,
                        [page_number |-> p, text |-> <<>>, error |-> TRUE])
              ELSE /\ x_text' = x_text \o PageText(x_doc, p) \o PageBreak
                   /\ x_info' = Append(x_info,
                        [page_number |-> p, text |-> PageText(x_doc, p),
                         error |-> FALSE])
    /\ UNCHANGED <<x_pc, x_impl, x_doc, x_res, outsideExtract>>

\* S3PDFProcessor: one pass of the for loop; an exception leaves the loop
\* for the handler of the whole function, which returns an error
ProcessorPage ==
    /\ mode = "extract"
    /\ x_pc = "pages"
    /\ x_impl = "S3PDFProcessor"
    /\ x_i < Len(x_doc.pages)
    /\ LET p == x_i + 1
       IN  /\ x_i' = p
           /\ CASE x_doc.pages[p] = "raises" ->
                     /\ x_pc' = "done"
                     /\ x_res' = Failure
                     /\ UNCHANGED <<x_text, x_info>>
                [] x_doc.pages[p] = "empty" ->
                     UNCHANGED <<x_pc, x_res, x_text, x_info>>
                [] OTHER ->
                     /\ x_text' = x_text \o PageText(x_doc, p) \o PageBreak
                     /\ x_info' = Append(x_info,
                          [page_number |-> p, text |-> PageText(x_doc, p),
                           error |-> FALSE])
                     /\ UNCHANGED <<x_pc, x_res>>
    /\ UNCHANGED <<x_impl, x_doc, outsideExtract>>

\* the return after the loop; PDFProcessingService strips full_text
ExtractReturn ==
    /\ mode = "extract"
    /\ x_pc = "pages"
    /\ x_i = Len(x_doc.pages)
    /\ x_pc' = "done"
    /\ x_res' = [ok |-> TRUE,
                 full_text |-> IF x_impl = "PDFProcessingService"
                               THEN Strip(x_text) ELSE x_text,
                 pages |-> x_info,
                 page_count |-> Len(x_doc.pages)]
    /\ UNCHANGED <<x_impl, x_doc, x_i, x_text, x_info, outsideExtract>>

NextExtract == ExtractOpen \/ ServicePage \/ ProcessorPage \/ ExtractReturn

SpecExtract == InitExtract /\ [][NextExtract]_vars

\* The letters of a text, without its whitespace.
Letters(t) == SelectSeq(t, LAMBDA r : ~IsWs(r.c))

RECURSIVE TextOfPages(_, _)
TextOfPages(doc, p) ==
    IF p > Len(doc.pages) THEN <<>>
    ELSE PageText(doc, p) \o TextOfPages(doc, p + 1)

\* C10: when extracting a page raises, that page is recorded with an error
\* and empty text, the following pages are still extracted, and the result
\* is a success whose page_count is the number of pages and whose full_text
\* is the text of the pages that were extracted.
C10_PageFailureIsolated ==
    (/\ mode = "extract" /\ x_pc = "done"
     /\ x_doc.opens /\ x_doc.encrypted # "locked"
     /\ \E p \in DOMAIN x_doc.pages : x_doc.pages[p] = "raises") =>
        /\ x_res.ok
        /\ x_res.page_count = Len(x_doc.pages)
        /\ Letters(x_res.full_text) = TextOfPages(x_doc, 1)
        /\ \A p \in DOMAIN x_doc.pages :
             /\ x_doc.pages[p] = "raises" =>
                  \E r \in DOMAIN x_res.pages :
                      x_res.pages[r] =
                        [page_number |-> p, text |-> <<>>, error |-> TRUE]
             /\ x_doc.pages[p] = "text" =>
                  \E r \in DOMAIN x_res.pages :
                      x_res.pages[r] =
                        [page_number |-> p, text |-> <<L(p)>>,
                         error |-> FALSE]

----------------------------------------------------------------------------
(* The bucket and the snapshot writer.  An object key is                   *)
(* <<snapshot name, kind, number, digest>>; a frame (the DataFrame with    *)
(* its tracking columns) stands for the digest of its CSV.                 *)

LogKey(table, version) == <<table, "_delta_log", version, 0>>
DataKey(table, part, df) == <<table, "parquet", part, df>>
ManifestKey(table) == <<table, "_symlink_format_manifest", 0, 0>>

LogVersions(s, table) ==
    {k[3] : k \in {x \in DOMAIN s : x[1] = table /\ x[2] = "_delta_log"}}

DataFiles(s, table) == {x \in DOMAIN s : x[1] = table /\ x[2] = "parquet"}

\* put_object when the key is only written if it is free
PutIfAbsent(s, key, body) ==
    IF key \in DOMAIN s THEN s
    ELSE [x \in DOMAIN s \cup {key} |-> IF x = key THEN body ELSE s[x]]

\* s3_client.put_object(Bucket, Key, Body)
PutObject(s, key, body) ==
    [x \in DOMAIN s \cup {key} |-> IF x = key THEN body ELSE s[x]]

\* a check that never finds a log
NeverExisting(s, table, listed) == FALSE

\* check_existing_delta_table_in_s3; `listed` is whether list_objects_v2
\* answered (an exception there returns False)
check_existing_delta_table_in_s3(s, table, listed) ==
    listed /\ LogVersions(s, table) # {}

\* line 1090
version_number == 1

\* What one call prepares in its temporary directory: the branch taken,
\* the log file name, the data file name and the txnId.
Prepared(existing_data, df, txn) ==
    [branch |-> IF existing_data THEN "APPEND" ELSE "CREATE",
     version |-> IF existing_data THEN version_number ELSE 0,
     part |-> IF existing_data THEN 1 ELSE 0,
     df |-> df,
     txn |-> txn]

\* lines 1059-1074 and 1120-1135: the columns both branches add to the frame
TrackingColumns ==
    {"fonte_arquivo", "data_insercao", "Arquivo", "modelo_llm_usado",
     "tempo_processamento_llm_segundos"}

\* df_copy.columns: the columns of the rows the extraction gave, which
\* differ from one document to the next, and the tracking columns
Columns(df) ==
    (IF df = 1 THEN {"produto", "valor"} ELSE {"produto", "valor", "prazo"})
        \cup TrackingColumns

\* create_delta_metadata, lines 737-747: the schema fields are the columns
\* of the frame
schemaString(df) == Columns(df)

\* create_glue_table_from_delta, lines 1391-1454: the table is created with
\* the columns of the frame, or updated to them when it is there already
Registered(catalog, table, df) ==
    [k \in DOMAIN catalog \cup {table} |->
        IF k = table THEN Columns(df) ELSE catalog[k]]

\* The log file of a prepared write; schema is that of the metaData action,
\* {} when the file has none.
LogBody(table, e) ==
    [actions |-> IF e.branch = "CREATE"
                 THEN <<"commitInfo", "metaData", "protocol", "add">>
                 ELSE <<"commitInfo", "add">>,
     schema |-> IF e.branch = "CREATE" THEN schemaString(e.df) ELSE {},
     path |-> DataKey(table, e.part, e.df),
     txnId |-> e.txn]

\* the walk that reaches the _delta_log directory first
UploadLogFirst(s, table, e) ==
    PutObject(s, LogKey(table, e.version), LogBody(table, e))

\* upload_delta_structure_to_s3, in os.walk order: the data file...
UploadData(s, table, e) ==
    PutObject(s, DataKey(table, e.part, e.df), [rows |-> e.df])

\* ...then the log file
UploadLog(s, table, e) ==
    PutObject(s, LogKey(table, e.version), LogBody(table, e))

\* generate_symlink_format_manifest: list the parquet objects, put the list
Manifest(s, table) ==
    IF DataFiles(s, table) = {} THEN s
    ELSE PutObject(s, ManifestKey(table), [files |-> DataFiles(s, table)])

\* save_or_append_delta_table_to_s3, run by the background units on one
\* snapshot name: at most MaxCalls calls, each with one of two frames, with
\* at most MaxFaults failing storage requests.
MaxCalls == 3
MaxFaults == 1

SnapshotName == "investimento"
Frames == {1, 2}
Returned == "s3://bucket/chathib-prod/delta_datasets/"

InitWriter ==
    /\ mode = "writer"
    /\ IdleExcept({"writer"})
    /\ WriterIdle

MayFail(ok) == ok \/ h_faults < MaxFaults

\* lines 1043-1105 (1123-1162): the existence check and the files prepared
\* in the temporary directory
WriterCheck(w) ==
    /\ mode = "writer"
    /\ w_pc[w] = "idle"
    /\ h_calls < MaxCalls
    /\ \E df \in Frames, listed \in BOOLEAN :
         /\ MayFail(listed)
         /\ h_faults' = IF listed THEN h_faults ELSE h_faults + 1
         /\ w_entry' = [w_entry EXCEPT ![w] =
              Prepared(check_existing_delta_table_in_s3(s3, SnapshotName,
                                                        listed),
                       df, h_calls + 1)]
    /\ w_pc' = [w_pc EXCEPT ![w] = "data"]
    /\ h_calls' = h_calls + 1
    /\ h_overlap' = (h_overlap \/ \E v \in Writers : w_pc[v] # "idle")
    /\ UNCHANGED <<w_ret, h_done, h_first, storeVars, outsideWriter>>

\* upload_delta_structure_to_s3, first file; an exception of put_object
\* ends the call in the handler of line 1175
WriterPutData(w) ==
    /\ mode = "writer"
    /\ w_pc[w] = "data"
    /\ \E ok \in BOOLEAN :
         /\ MayFail(ok)
         /\ IF ok
            THEN /\ s3' = UploadData(s3, SnapshotName, w_entry[w])
                 /\ w_pc' = [w_pc EXCEPT ![w] = "log"]
                 /\ UNCHANGED <<w_ret, h_faults>>
            ELSE /\ w_pc' = [w_pc EXCEPT ![w] = "idle"]
                 /\ w_ret' = [w_ret EXCEPT ![w] = "Erro"]
                 /\ h_faults' = h_faults + 1
                 /\ s3' = s3
    /\ UNCHANGED <<w_entry, h_calls, h_done, h_overlap, h_first, glue,
                   athena, outsideWriter>>

\* upload_delta_structure_to_s3, second file
WriterPutLog(w) ==
    /\ mode = "writer"
    /\ w_pc[w] = "log"
    /\ \E ok \in BOOLEAN :
         /\ MayFail(ok)
         /\ IF ok
            THEN /\ s3' = UploadLog(s3, SnapshotName, w_entry[w])
                 /\ w_pc' = [w_pc EXCEPT ![w] = "athena"]
                 /\ UNCHANGED <<w_ret, h_faults>>
            ELSE /\ w_pc' = [w_pc EXCEPT ![w] = "idle"]
                 /\ w_ret' = [w_ret EXCEPT ![w] = "Erro"]
                 /\ h_faults' = h_faults + 1
                 /\ s3' = s3
    /\ UNCHANGED <<w_entry, h_calls, h_done, h_overlap, h_first, glue,
                   athena, outsideWriter>>

\* setup_athena_compatibility and the return of the s3 path; failures of
\* the manifest and of the catalog are swallowed there
WriterAthena(w) ==
    /\ mode = "writer"
    /\ w_pc[w] = "athena"
    /\ \E manifest_ok \in BOOLEAN, glue_ok \in BOOLEAN :
         /\ h_faults' = h_faults + (IF manifest_ok THEN 0 ELSE 1)
                                 + (IF glue_ok THEN 0 ELSE 1)
         /\ h_faults' <= MaxFaults
         /\ s3' = IF manifest_ok THEN Manifest(s3, SnapshotName) ELSE s3
         /\ glue' = IF glue_ok
                    THEN Registered(glue, SnapshotName, w_entry[w].df)
                    ELSE glue
    /\ athena' = [manifest |-> athena.manifest + 1, glue |-> athena.glue + 1]
    /\ w_pc' = [w_pc EXCEPT ![w] = "idle"]
    /\ w_ret' = [w_ret EXCEPT ![w] = Returned]
    /\ h_done' = h_done + 1
    /\ h_first' = IF h_done = 0 THEN s3' ELSE h_first
    /\ UNCHANGED <<w_entry, h_calls, h_overlap, outsideWriter>>

NextWriter ==
    \E w \in Writers :
        \/ WriterCheck(w)
        \/ WriterPutData(w)
        \/ WriterPutLog(w)
        \/ WriterAthena(w)

SpecWriter == InitWriter /\ [][NextWriter]_vars

\* Calls made one after the other, every storage request answered.
SingleWriter == mode = "writer" /\ ~h_overlap /\ h_faults = 0

WritersIdle == \A w \in Writers : w_pc[w] = "idle"

\* The objects of s other than the manifest are in s2, unchanged.
Kept(s, s2) ==
    \A k \in DOMAIN s :
        k[2] # "_symlink_format_manifest" => k \in DOMAIN s2 /\ s2[k] = s[k]

\* C1: from a name without a log, the first of two successive single-writer
\* calls takes the CREATE branch and stores exactly one log entry, numbered
\* 0; the second takes the APPEND branch and stores a log entry numbered 1,
\* and log entry 0 and the first data file stay as the first call left them.
C1_CreateThenAppend ==
    (SingleWriter /\ h_calls <= 2) =>
        /\ h_done >= 1 =>
             /\ LogVersions(h_first, SnapshotName) = {0}
             /\ h_first[LogKey(SnapshotName, 0)].txnId = 1
             /\ h_first[LogKey(SnapshotName, 0)].actions =
                  <<"commitInfo", "metaData", "protocol", "add">>
             /\ DataFiles(h_first, SnapshotName) =
                  {h_first[LogKey(SnapshotName, 0)].path}
             /\ Kept(h_first, s3)
        /\ h_done = 2 =>
             /\ LogVersions(s3, SnapshotName) = {0, 1}
             /\ s3[LogKey(SnapshotName, 1)].txnId = 2
             /\ s3[LogKey(SnapshotName, 1)].actions = <<"commitInfo", "add">>
             /\ \E w \in Writers : w_entry[w].txn = 2
                                   /\ w_entry[w].branch = "APPEND"

C1_Witness ==
    /\ SingleWriter /\ WritersIdle
    /\ h_calls = 2 /\ h_done = 2
    /\ LogVersions(s3, SnapshotName) = {0, 1}
    /\ Cardinality(DataFiles(s3, SnapshotName)) = 2

\* C2: under a single writer, after n >= 1 successful writes the log holds
\* the n entries 0 .. n-1.
C2_SequenceGrows ==
    (SingleWriter /\ WritersIdle /\ h_done >= 1) =>
        LogVersions(s3, SnapshotName) = 0 .. h_done - 1

\* C3: the writer takes no lock and writes unconditionally: a call can begin
\* while another is between its check and its upload, and a log upload
\* leaves the uploader's entry under the key whatever was stored there.
C3_NoLockNoConditionalWrite ==
    /\ [](mode = "writer" =>
            \A w \in Writers :
                (w_pc[w] = "idle" /\ h_calls < MaxCalls) =>
                    ENABLED WriterCheck(w))
    /\ [][\A w \in Writers :
            (mode = "writer" /\ w_pc[w] = "log" /\ w_pc'[w] = "athena") =>
                s3'[LogKey(SnapshotName, w_entry[w].version)] =
                    LogBody(SnapshotName, w_entry[w])]_vars

\* Both units returned an s3 path for the same sequence number and only one
\* of the two log entries is in the bucket.
C3_Witness ==
    /\ mode = "writer" /\ WritersIdle /\ h_faults = 0
    /\ h_calls = 2 /\ h_done = 2 /\ h_overlap
    /\ \A w \in Writers : w_ret[w] = Returned
    /\ w_entry[1].version = w_entry[2].version
    /\ LogVersions(s3, SnapshotName) = {w_entry[1].version}
    /\ \E w \in Writers :
         s3[LogKey(SnapshotName, w_entry[w].version)].txnId # w_entry[w].txn

----------------------------------------------------------------------------
(* generate_and_save_delta_tables_to_s3.  tables_data maps the table types *)
(* that were extracted to "rows" or "empty" (DataFrame.empty); every       *)
(* storage request is answered.                                            *)

TableTypes ==
    {"investimento_financeiro", "renda_fixa", "produtos_servicos",
     "valores_contrato", "cronograma_pagamentos"}

TablesData ==
    UNION {[present -> {"rows", "empty"}] : present \in SUBSET TableTypes}

\* a test that looks at the key alone
HasKey(td, k) == k \in DOMAIN td

\* lines 662 and 669: the key is there and the frame is not empty
has_data(td, k) == k \in DOMAIN td /\ td[k] # "empty"

HasRows(td, k) == k \in DOMAIN td /\ td[k] = "rows"

\* lines 701 and 710: 'valores_contrato' in tables_data or any key with
\* 'valor' in it
HasValueKey(td) == "valores_contrato" \in DOMAIN td

\* One whole call of save_or_append_delta_table_to_s3 (append = TRUE) or of
\* save_delta_table_to_s3 (append = FALSE), nothing else running.
Saved(s, table, append, txn) ==
    LET e == Prepared(append /\ check_existing_delta_table_in_s3(s, table,
                                                                 TRUE),
                      1, txn)
    IN  Manifest(UploadLog(UploadData(s, table, e), table, e), table)

\* A bucket where an earlier document has created the investimento snapshot.
EarlierBucket == Saved(NoObjects, "investimento", TRUE, 0)

InitGen ==
    /\ mode = "gen"
    /\ IdleExcept({"gen", "store"})
    /\ g_pc = "check"
    /\ g_tables \in TablesData
    /\ g_client \in BOOLEAN
    /\ g_files = {}
    /\ s3 \in {NoObjects, EarlierBucket}
    /\ glue = IF s3 = NoObjects THEN NoTables
              ELSE Registered(NoTables, "investimento", 1)
    /\ athena = [manifest |-> 0, glue |-> 0]
    /\ g_s3 = [s3 |-> s3, glue |-> glue]

\* The effect of one save on delta_files, the bucket and the catalog.
GenSave(file, table, append, txn) ==
    /\ g_files' = g_files \cup {file}
    /\ IF g_client
       THEN /\ s3' = Saved(s3, table, append, txn)
            /\ glue' = Registered(glue, table, 1)
            /\ athena' = [manifest |-> athena.manifest + 1,
                          glue |-> athena.glue + 1]
       ELSE UNCHANGED <<s3, glue, athena>>

GenSkip == UNCHANGED <<g_files, s3, glue, athena>>

\* lines 657-679: the two flags and the early return
GenCheck ==
    /\ mode = "gen"
    /\ g_pc = "check"
    /\ g_pc' = IF \/ has_data(g_tables, "investimento_financeiro")
                  \/ has_data(g_tables, "renda_fixa")
               THEN "delta1" ELSE "done"
    /\ GenSkip
    /\ UNCHANGED <<g_tables, g_client, g_s3, outsideGen>>

\* lines 683-688
GenInvestimento ==
    /\ mode = "gen"
    /\ g_pc = "delta1"
    /\ g_pc' = "delta1_1"
    /\ IF /\ has_data(g_tables, "investimento_financeiro")
          /\ HasRows(g_tables, "investimento_financeiro")
       THEN GenSave("delta_investimento", "investimento", TRUE, 1)
       ELSE GenSkip
    /\ UNCHANGED <<g_tables, g_client, g_s3, outsideGen>>

\* lines 691-696
GenRendaFixa ==
    /\ mode = "gen"
    /\ g_pc = "delta1_1"
    /\ g_pc' = "delta2"
    /\ IF /\ has_data(g_tables, "renda_fixa")
          /\ HasRows(g_tables, "renda_fixa")
       THEN GenSave("delta_renda_fixa", "renda_fixa", TRUE, 2)
       ELSE GenSkip
    /\ UNCHANGED <<g_tables, g_client, g_s3, outsideGen>>

\* lines 699-706; in create_product_value_delta_table the expression
\* `tables_data.get('produtos_servicos') or ...` raises ValueError when the
\* key is there, which ends the call in the handler of line 723
GenProdutoValor ==
    /\ mode = "gen"
    /\ g_pc = "delta2"
    /\ IF has_data(g_tables, "investimento_financeiro")
          /\ HasValueKey(g_tables)
       THEN IF "produtos_servicos" \in DOMAIN g_tables
            THEN g_pc' = "done" /\ GenSkip
            ELSE /\ g_pc' = "delta3"
                 /\ IF HasRows(g_tables, "investimento_financeiro")
                    THEN GenSave("delta_produto_valor", "produto_valor",
                                 FALSE, 3)
                    ELSE GenSkip
       ELSE g_pc' = "delta3" /\ GenSkip
    /\ UNCHANGED <<g_tables, g_client, g_s3, outsideGen>>

\* lines 709-716
GenFluxoCaixa ==
    /\ mode = "gen"
    /\ g_pc = "delta3"
    /\ g_pc' = "done"
    /\ IF /\ has_data(g_tables, "investimento_financeiro")
          /\ "cronograma_pagamentos" \in DOMAIN g_tables
          /\ HasValueKey(g_tables)
          /\ HasRows(g_tables, "cronograma_pagamentos")
          /\ HasRows(g_tables, "valores_contrato")
       THEN GenSave("delta_fluxo_caixa", "fluxo_caixa", FALSE, 4)
       ELSE GenSkip
    /\ UNCHANGED <<g_tables, g_client, g_s3, outsideGen>>

NextGen ==
    GenCheck \/ GenInvestimento \/ GenRendaFixa \/ GenProdutoValor
        \/ GenFluxoCaixa

SpecGen == InitGen /\ [][NextGen]_vars

\* C9: when neither investimento_financeiro nor renda_fixa is present and
\* non-empty, the call stores no data file and no log entry and attempts no
\* manifest write and no catalog registration, whatever else is present.
C9_NothingWithoutMainTables ==
    (/\ mode = "gen"
     /\ ~HasRows(g_tables, "investimento_financeiro")
     /\ ~HasRows(g_tables, "renda_fixa")) =>
        /\ s3 = g_s3.s3
        /\ glue = g_s3.glue
        /\ athena = [manifest |-> 0, glue |-> 0]
        /\ g_files = {}

C9_Witness ==
    /\ mode = "gen" /\ g_pc = "done" /\ g_client
    /\ ~HasRows(g_tables, "investimento_financeiro")
    /\ ~HasRows(g_tables, "renda_fixa")
    /\ "investimento_financeiro" \in DOMAIN g_tables
    /\ HasRows(g_tables, "cronograma_pagamentos")
    /\ HasRows(g_tables, "valores_contrato")
    /\ s3 = g_s3.s3

----------------------------------------------------------------------------
(* main.py: the status map, the background unit process_pdf_sync, and the  *)
(* requests upload_pdf, force_complete_status and clear_old_status.  The   *)
(* requests run on the event loop, one at a time; the units run on threads *)
(* and interleave with each other and with a request in progress.          *)

PENDING == "pending"
PROCESSING == "processing"
COMPLETED == "completed"
ERROR == "error"

\* line 1391: the age, in seconds, beyond which the sweep removes an entry
MaxAge == 3600

\* The clock moves by TickSeconds, MaxTicks times at most.
TickSeconds == 3600
MaxTicks == 2

\* update_processing_status: the entry of task_id is replaced as a whole;
\* result is "None" or what the index call reported
update_processing_status(m, task_id, status, progress, message, result, time) ==
    [k \in DOMAIN m \cup {task_id} |->
        IF k = task_id
        THEN [status |-> status, progress |-> progress, message |-> message,
              result |-> result, timestamp |-> time]
        ELSE m[k]]

\* The last status each task had, given the new status map.
LastStatus(m) ==
    [t \in TaskIds |-> IF t \in DOMAIN m THEN m[t].status ELSE t_last[t]]

\* Nothing on the event loop is half-way.
LoopFree == sw.pc = "idle" /\ fc = 0

Running(t) == u_pc[t] \in {"begun", "extracting", "indexing"}

\* What process_pdf_with_table_extraction returns to the unit: the 'error'
\* key with its error_type, or the counts of what it stored.  A bucket that
\* does not answer leaves the CSV list empty (save_tables_to_s3_csv, line
\* 619) and puts "Erro: ..." strings in the delta list (line 1177); neither
\* adds an 'error' key.
TableResults(s3_up) ==
    {[error |-> TRUE, error_type |-> et, csv |-> 0, delta |-> 0] :
        et \in {"dependency", "encryption", "unknown"}}
    \cup {[error |-> FALSE, error_type |-> "", csv |-> c, delta |-> d] :
            c \in (IF s3_up THEN {0, 1} ELSE {0}), d \in {0, 1}}

\* lines 183-192: the message for an 'error' result
detailed_message(r) ==
    CASE r.error_type = "dependency" -> "Dependencia faltando"
      [] r.error_type = "encryption" -> "PDF criptografado"
      [] OTHER -> "Erro no processamento"

\* the except clause that leaves the status as it is
Swallowed(m, task_id, time) == m

\* lines 251-261: the except clause of process_pdf_sync
on_exception(m, task_id, time) ==
    update_processing_status(m, task_id, ERROR, 0, "Erro interno", "None", time)

\* The task ids of the timed runs; the runs without clock, sweep and forcing
\* ("pool") upload every id of TaskIds.
TimedTasks == {1, 2}
TaskMode == mode \in {"task", "pool"}
Uploadable == IF mode = "pool" THEN TaskIds ELSE TimedTasks

InitTask ==
    /\ mode = "task"
    /\ IdleExcept({"task"})
    /\ processing_status = [k \in {} |-> 0]
    /\ u_pc = [t \in TaskIds |-> "none"]
    /\ u_env \in [processor : BOOLEAN, s3_up : BOOLEAN]
    /\ now = 0
    /\ sw = NoSweep
    /\ fc = 0
    /\ t_last = [t \in TaskIds |-> "none"]

\* datetime.utcnow() moves on
Tick ==
    /\ mode = "task"
    /\ now < MaxTicks * TickSeconds
    /\ now' = now + TickSeconds
    /\ UNCHANGED <<processing_status, u_pc, u_env, sw, fc, t_last,
                   outsideTask>>

\* upload_pdf, lines 400-407: the entry is created PENDING and the unit is
\* handed to BackgroundTasks
upload_pdf(t) ==
    /\ TaskMode
    /\ LoopFree
    /\ t \in Uploadable
    /\ u_pc[t] = "none"
    /\ \A s \in TaskIds : s < t => u_pc[s] # "none"
    /\ processing_status' =
         update_processing_status(processing_status, t, PENDING, 10,
                                  "Iniciando processamento", "None", now)
    /\ u_pc' = [u_pc EXCEPT ![t] = "scheduled"]
    /\ t_last' = LastStatus(processing_status')
    /\ UNCHANGED <<u_env, now, sw, fc, outsideTask>>

\* process_pdf_sync, line 149: the thread starts the unit
UnitBegin(t) ==
    /\ TaskMode
    /\ u_pc[t] = "scheduled"
    /\ processing_status' =
         update_processing_status(processing_status, t, PROCESSING, 20,
                                  "Processando", "None", now)
    /\ u_pc' = [u_pc EXCEPT ![t] = "begun"]
    /\ t_last' = LastStatus(processing_status')
    /\ UNCHANGED <<u_env, now, sw, fc, outsideTask>>

\* lines 152-171: without a processor the unit ends in ERROR; an unreachable
\* bucket is a warning only (lines 159-161); the temporary file is written,
\* or the write raises
UnitCheck(t) ==
    /\ TaskMode
    /\ u_pc[t] = "begun"
    /\ \E raises \in BOOLEAN :
         IF ~u_env.processor
         THEN /\ ~raises
              /\ processing_status' =
                   update_processing_status(processing_status, t, ERROR, 0,
                       "S3PDFProcessor nao disponivel", "None", now)
              /\ u_pc' = [u_pc EXCEPT ![t] = "finished"]
         ELSE IF raises
         THEN /\ processing_status' = on_exception(processing_status, t, now)
              /\ u_pc' = [u_pc EXCEPT ![t] = "finished"]
         ELSE /\ processing_status' =
                   update_processing_status(processing_status, t, PROCESSING,
                       50, "Extraindo tabelas", "None", now)
              /\ u_pc' = [u_pc EXCEPT ![t] = "extracting"]
    /\ t_last' = LastStatus(processing_status')
    /\ UNCHANGED <<u_env, now, sw, fc, outsideTask>>

\* lines 172-199: the table pipeline returns or raises; an 'error' result
\* ends the unit in ERROR
UnitExtract(t) ==
    /\ TaskMode
    /\ u_pc[t] = "extracting"
    /\ \/ \E r \in TableResults(u_env.s3_up) :
            IF r.error
            THEN /\ processing_status' =
                      update_processing_status(processing_status, t, ERROR, 0,
                          detailed_message(r), "None", now)
                 /\ u_pc' = [u_pc EXCEPT ![t] = "finished"]
            ELSE /\ processing_status' =
                      update_processing_status(processing_status, t,
                          PROCESSING, 70, "Indexando no ChromaDB", "None", now)
                 /\ u_pc' = [u_pc EXCEPT ![t] = "indexing"]
       \/ /\ processing_status' = on_exception(processing_status, t, now)
          /\ u_pc' = [u_pc EXCEPT ![t] = "finished"]
    /\ t_last' = LastStatus(processing_status')
    /\ UNCHANGED <<u_env, now, sw, fc, outsideTask>>

\* What process_uploaded_pdf returns (pdf_processing_service.py lines
\* 272-414 and 416-517): 'success' True after extraction, chunking and
\* store_pdf_embeddings, and 'success' False with an 'error' text when there
\* is no text, no chunk, or the vector index refuses or raises.  It never
\* raises itself.
IndexResults == {"indexed", "not_indexed"}

\* lines 200-249: the index call returns, its result goes into
\* combined_result under 'traditional_processing' and the unit ends
\* COMPLETED; or a statement of the unit raises
UnitIndex(t) ==
    /\ TaskMode
    /\ u_pc[t] = "indexing"
    /\ \/ \E traditional_result \in IndexResults :
            processing_status' =
              update_processing_status(processing_status, t, COMPLETED, 100,
                                       "PDF processado", traditional_result,
                                       now)
       \/ processing_status' = on_exception(processing_status, t, now)
    /\ u_pc' = [u_pc EXCEPT ![t] = "finished"]
    /\ t_last' = LastStatus(processing_status')
    /\ UNCHANGED <<u_env, now, sw, fc, outsideTask>>

\* force_complete_status, lines 1428-1431: the status of an entry that
\* exists is set to COMPLETED
ForceStatus(t) ==
    /\ mode = "task"
    /\ LoopFree
    /\ t \in DOMAIN processing_status
    /\ processing_status' =
         [processing_status EXCEPT ![t].status = COMPLETED]
    /\ fc' = t
    /\ t_last' = LastStatus(processing_status')
    /\ UNCHANGED <<u_pc, u_env, now, sw, outsideTask>>

\* lines 1432-1434: the other fields, written to the entry the map holds by
\* then
ForceRest ==
    /\ mode = "task"
    /\ fc # 0
    /\ processing_status' =
         [processing_status EXCEPT
            ![fc].progress = 100,
            ![fc].message = "Processamento forcado como concluido",
            ![fc].timestamp = now]
    /\ fc' = 0
    /\ UNCHANGED <<u_pc, u_env, now, sw, t_last, outsideTask>>

\* clear_old_status, lines 1381-1385: the time is read and the iteration
\* over the map starts
SweepStart ==
    /\ mode = "task"
    /\ LoopFree
    /\ sw' = [pc |-> "scan", time |-> now,
              size |-> Cardinality(DOMAIN processing_status),
              seen |-> {}, remove |-> {}]
    /\ UNCHANGED <<processing_status, u_pc, u_env, now, fc, t_last,
                   outsideTask>>

\* lines 1385-1395: one step of the iteration.  A map whose size changed
\* since the iteration started raises RuntimeError, which the handler turns
\* into a 500 with nothing removed (lines 1407-1409).
SweepNext ==
    /\ mode = "task"
    /\ sw.pc = "scan"
    /\ IF Cardinality(DOMAIN processing_status) # sw.size
       THEN sw' = NoSweep
       ELSE IF DOMAIN processing_status \subseteq sw.seen
       THEN sw' = [sw EXCEPT !.pc = "delete"]
       ELSE LET k == SetMin(DOMAIN processing_status \ sw.seen)
                old == sw.time - processing_status[k].timestamp > MaxAge
            IN  sw' = [sw EXCEPT !.seen = @ \cup {k},
                         !.remove = IF old THEN @ \cup {k} ELSE @]
    /\ UNCHANGED <<processing_status, u_pc, u_env, now, fc, t_last,
                   outsideTask>>

\* lines 1397-1398: the entries listed are deleted
SweepDelete ==
    /\ mode = "task"
    /\ sw.pc = "delete"
    /\ processing_status' =
         [k \in DOMAIN processing_status \ sw.remove |-> processing_status[k]]
    /\ sw' = NoSweep
    /\ UNCHANGED <<u_pc, u_env, now, fc, t_last, outsideTask>>

UnitStep(t) == UnitBegin(t) \/ UnitCheck(t) \/ UnitExtract(t) \/ UnitIndex(t)

NextTask ==
    \/ Tick
    \/ \E t \in TaskIds : upload_pdf(t)
    \/ \E t \in TaskIds : UnitBegin(t)
    \/ \E t \in TaskIds : UnitCheck(t)
    \/ \E t \in TaskIds : UnitExtract(t)
    \/ \E t \in TaskIds : UnitIndex(t)
    \/ \E t \in TaskIds : ForceStatus(t)
    \/ ForceRest
    \/ SweepStart
    \/ SweepNext
    \/ SweepDelete

SpecTask == InitTask /\ [][NextTask]_vars

\* Uploads and their units alone, for every id of TaskIds.
InitPool ==
    /\ mode = "pool"
    /\ IdleExcept({"task"})
    /\ processing_status = [k \in {} |-> 0]
    /\ u_pc = [t \in TaskIds |-> "none"]
    /\ u_env \in [processor : BOOLEAN, s3_up : BOOLEAN]
    /\ now = 0
    /\ sw = NoSweep
    /\ fc = 0
    /\ t_last = [t \in TaskIds |-> "none"]

NextPool ==
    \/ \E t \in TaskIds : upload_pdf(t)
    \/ \E t \in TaskIds : UnitBegin(t)
    \/ \E t \in TaskIds : UnitCheck(t)
    \/ \E t \in TaskIds : UnitExtract(t)
    \/ \E t \in TaskIds : UnitIndex(t)

SpecPool == InitPool /\ [][NextPool]_vars

\* The order of statuses: a new task is PENDING, PENDING becomes PROCESSING,
\* PROCESSING becomes COMPLETED or ERROR, and nothing else changes.
StatusOrder(a, b) ==
    \/ a = b
    \/ a = "none" /\ b = PENDING
    \/ a = PENDING /\ b = PROCESSING
    \/ a = PROCESSING /\ b \in {COMPLETED, ERROR}

\* C11: the status of a task follows PENDING, PROCESSING, then COMPLETED or
\* ERROR, whatever force_complete_status and clear_old_status do in between:
\* a task that was COMPLETED or ERROR keeps that status, and no task goes
\* from PROCESSING back to PENDING.
C11_StatusOrderKept ==
    [][\A t \in TaskIds : StatusOrder(t_last[t], t_last'[t])]_vars

----------------------------------------------------------------------------
(* s3_pdf_processor.py: how process_pdf_with_table_extraction reports a    *)
(* text extraction that failed.  A failure is an exception raised inside   *)
(* extract_text_from_pdf: at decrypt('') (site "decrypt") or anywhere else *)
(* in the body (site "read"); its text is known by the words the handlers  *)
(* look for.                                                               *)

\* What str(e) may hold: the library's name, "AES", and lower-case words
\* with "crypt" or "aes" in them.
Marks == {"PyCryptodome", "AES", "crypt", "aes"}

Failures ==
    [site : {"decrypt", "read"}, class : {"ImportError", "Exception"},
     text : SUBSET Marks]

\* "PyCryptodome" in s or "AES" in s  (lines 151, 160)
NamesLibrary(text) == "PyCryptodome" \in text \/ "AES" \in text

\* str.lower on a word of the text
Lower(w) ==
    CASE w = "PyCryptodome" -> "pycryptodome"
      [] w = "AES" -> "aes"
      [] OTHER -> w

\* "crypt" in s.lower() or "aes" in s.lower()  (line 165)
LooksEncrypted(text) ==
    \E w \in text : Lower(w) \in {"pycryptodome", "crypt", "aes"}

\* line 161: the text the handler puts in place of the exception's
LibraryMessage == {"PyCryptodome", "crypt"}

\* lines 158-166: the flag is computed on the message after line 161
EncryptedError(f) ==
    LooksEncrypted(IF NamesLibrary(f.text) THEN LibraryMessage ELSE f.text)

\* extract_text_from_pdf, lines 119-127 and 149-166: the dict returned for a
\* failure
extract_text_from_pdf(f) ==
    IF f.site = "decrypt"
    THEN [error |-> TRUE, is_encrypted |-> TRUE,
          is_dependency_error |-> FALSE, is_encrypted_error |-> FALSE]
    ELSE IF f.class = "ImportError"
    THEN [error |-> TRUE, is_encrypted |-> FALSE,
          is_dependency_error |-> TRUE, is_encrypted_error |-> FALSE]
    ELSE [error |-> TRUE, is_encrypted |-> FALSE,
          is_dependency_error |-> FALSE,
          is_encrypted_error |-> EncryptedError(f)]

\* lines 185-206: the error result; "" stands for a result without the
\* error_type key
error_result(pdf_data) ==
    IF pdf_data.is_dependency_error
    THEN [error |-> TRUE, error_type |-> "dependency"]
    ELSE IF pdf_data.is_encrypted \/ pdf_data.is_encrypted_error
    THEN [error |-> TRUE, error_type |-> "encryption"]
    ELSE [error |-> TRUE, error_type |-> ""]

InitClassify ==
    /\ mode = "classify"
    /\ IdleExcept({"classify"})
    /\ k_pc = "start"
    /\ k_fail \in Failures \cup {NoFailure}
    /\ k_data = NoData
    /\ k_res = NoResult

\* line 184: the call of extract_text_from_pdf
ClassifyExtract ==
    /\ mode = "classify"
    /\ k_pc = "start"
    /\ k_data' = IF k_fail = NoFailure THEN NoData
                 ELSE extract_text_from_pdf(k_fail)
    /\ k_pc' = "extracted"
    /\ UNCHANGED <<k_fail, k_res, outsideClassify>>

\* lines 185-206: an 'error' in pdf_data is returned with its kind
ClassifyError ==
    /\ mode = "classify"
    /\ k_pc = "extracted"
    /\ k_data.error
    /\ k_res' = error_result(k_data)
    /\ k_pc' = "returned"
    /\ UNCHANGED <<k_fail, k_data, outsideClassify>>

\* lines 208-245: without an 'error' the pipeline goes on to the tables
ClassifyGoOn ==
    /\ mode = "classify"
    /\ k_pc = "extracted"
    /\ ~k_data.error
    /\ k_res' = NoResult
    /\ k_pc' = "returned"
    /\ UNCHANGED <<k_fail, k_data, outsideClassify>>

NextClassify == ClassifyExtract \/ ClassifyError \/ ClassifyGoOn

SpecClassify == InitClassify /\ [][NextClassify]_vars

\* A failure for want of the decryption library: its text names it.
MissingLibrary(f) == "PyCryptodome" \in f.text

\* C12: a text extraction that failed is reported as one of three kinds
\* (dependency, encryption, or no kind), and a failure for want of the
\* decryption library is reported as 'dependency', never 'encryption',
\* whichever exception class carries it.
C12_MissingLibraryIsDependency ==
    (k_pc = "returned" /\ k_fail # NoFailure) =>
        /\ k_res.error
        /\ k_res.error_type \in {"dependency", "encryption", ""}
        /\ MissingLibrary(k_fail) => k_res.error_type = "dependency"

----------------------------------------------------------------------------
(* s3_pdf_processor.py: extract_tables_with_ai, one completion call per    *)
(* requested table type.                                                   *)

\* The table types requested (three of the default six, line 171).
TargetTypes == {"investimento_financeiro", "renda_fixa", "valores_contrato"}

\* The longest target_tables list.
MaxTargets == 3

\* What one pass of the loop body meets: rows, an empty table_data, or an
\* exception from the completion call, from the parsing, or from the
\* DataFrame constructor.
CallOutcomes == {"rows", "empty", "call_raises", "parse_raises",
                 "frame_raises"}
Raises(o) == o \in {"call_raises", "parse_raises", "frame_raises"}

SeqsUpTo(S, n) == UNION {[1..k -> S] : k \in 0..n}

\* the loop index after the except clause when it ends the loop
AfterBreak(i, n) == n + 1

\* lines 328-330: the except clause goes on with the next type
AfterContinue(i, n) == i + 1

InitAi ==
    /\ mode = "ai"
    /\ IdleExcept({"ai"})
    /\ a_pc = "start"
    /\ a_model \in {"bedrock", "google", "other", "none"}
    /\ a_targets \in SeqsUpTo(TargetTypes, MaxTargets)
    /\ a_out \in [1..Len(a_targets) -> CallOutcomes]
    /\ a_model \in {"other", "none"} => \A i \in DOMAIN a_out : a_out[i] = "rows"
    /\ a_i = 0
    /\ a_results = [k \in {} |-> 0]
    /\ a_metrics = <<>>

\* lines 272-292: without a model the empty dict is returned at once
AiStart ==
    /\ mode = "ai"
    /\ a_pc = "start"
    /\ IF a_model = "none"
       THEN a_pc' = "returned" /\ a_i' = a_i
       ELSE a_pc' = "loop" /\ a_i' = 1
    /\ UNCHANGED <<a_model, a_targets, a_out, a_results, a_metrics,
                   outsideAi>>

\* lines 294-330: one pass of the loop body
AiCall ==
    /\ mode = "ai"
    /\ a_pc = "loop"
    /\ a_i <= Len(a_targets)
    /\ LET o == a_out[a_i]
           ty == a_targets[a_i]
       IN  IF a_model \notin {"bedrock", "google"}
           THEN /\ a_i' = a_i + 1
                /\ UNCHANGED <<a_results, a_metrics>>
           ELSE IF Raises(o)
           THEN /\ a_i' = AfterContinue(a_i, Len(a_targets))
                /\ UNCHANGED <<a_results, a_metrics>>
           ELSE IF o = "empty"
           THEN /\ a_i' = a_i + 1
                /\ UNCHANGED <<a_results, a_metrics>>
           ELSE /\ a_i' = a_i + 1
                /\ a_results' = [k \in DOMAIN a_results \cup {ty} |->
                                   IF k = ty THEN a_i ELSE a_results[k]]
                /\ a_metrics' = Append(a_metrics, a_i)
    /\ UNCHANGED <<a_pc, a_model, a_targets, a_out, outsideAi>>

\* lines 332-333
AiReturn ==
    /\ mode = "ai"
    /\ a_pc = "loop"
    /\ a_i > Len(a_targets)
    /\ a_pc' = "returned"
    /\ UNCHANGED <<a_model, a_targets, a_out, a_i, a_results, a_metrics,
                   outsideAi>>

NextAi == AiStart \/ AiCall \/ AiReturn

SpecAi == InitAi /\ [][NextAi]_vars

\* The calls for a type that gave rows.
GoodCalls(ty) ==
    {i \in DOMAIN a_targets : a_targets[i] = ty /\ a_out[i] = "rows"}

\* C13: an exception in the completion call or in the parsing for one table
\* type removes the rows of that call only: every other call is still made,
\* in order, and the result holds for each type the rows of its last call
\* that gave rows, as if the failing calls had not been made.
C13_FailureIsolated ==
    (a_pc = "returned" /\ a_model \in {"bedrock", "google"}) =>
        /\ DOMAIN a_results = {ty \in TargetTypes : GoodCalls(ty) # {}}
        /\ \A ty \in DOMAIN a_results : a_results[ty] = SetMax(GoodCalls(ty))
        /\ {a_metrics[k] : k \in DOMAIN a_metrics} =
               {i \in DOMAIN a_out : a_out[i] = "rows"}
        /\ \A j, k \in DOMAIN a_metrics : j < k => a_metrics[j] < a_metrics[k]

\* A call failed and a later call, for another type, gave its rows.
C13_Witness ==
    /\ a_pc = "returned"
    /\ \E i, j \in DOMAIN a_out :
         /\ i < j
         /\ Raises(a_out[i])
         /\ a_targets[i] # a_targets[j]
         /\ a_targets[i] \notin DOMAIN a_results
         /\ a_targets[j] \in DOMAIN a_results
         /\ a_results[a_targets[j]] = j

----------------------------------------------------------------------------
(* pdf_processing_service.py: the spans of the chunks and the progress of  *)
(* the loop of create_text_chunks (SpecChunk)                              *)

C20_StartAdvances ==
    (c_pc = "loop" /\ c_prev # <<>>) =>
        LET old_start == c_prev[1]
            end == c_prev[2]
        IN  /\ c_start > old_start
            /\ c_start = IF end - chunk_overlap > old_start
                         THEN end - chunk_overlap
                         ELSE old_start + Max2(1, chunk_size \div 2)

\* An iteration where end - chunk_overlap was not beyond the start, and the
\* start was forced on.
C20_Witness ==
    /\ c_pc = "loop"
    /\ c_prev # <<>>
    /\ c_prev[2] - chunk_overlap <= c_prev[1]
    /\ c_start = c_prev[1] + Max2(1, chunk_size \div 2)

\* C24: of two chunks emitted one after the other by create_text_chunks,
\* the earlier ends at most chunk_overlap characters after the later starts.
C24_OverlapBounded ==
    \A k \in 1 .. Len(c_chunks) - 1 :
        c_chunks[k].end_char - c_chunks[k + 1].start_char <= chunk_overlap

\* Two chunks that share exactly chunk_overlap characters.
C24_Witness ==
    /\ c_pc = "done"
    /\ \E k \in 1 .. Len(c_chunks) - 1 :
         c_chunks[k].end_char - c_chunks[k + 1].start_char = chunk_overlap

\* C29: no chunk emitted by create_text_chunks has a range
\* [start_char, end_char) that lies inside the range of the chunk emitted
\* just before it: every chunk after the first covers a position the
\* previous chunk does not.
C29_NoChunkInsidePrevious ==
    \A k \in 1 .. Len(c_chunks) - 1 :
        ~(/\ c_chunks[k].start_char <= c_chunks[k + 1].start_char
          /\ c_chunks[k + 1].end_char <= c_chunks[k].end_char)

----------------------------------------------------------------------------
(* main.py: the background unit and the bucket (SpecPool, SpecTask)        *)

\* C15: when the bucket does not answer while the background unit processes
\* a task, the task ends in ERROR with a message, not in COMPLETED.
C15_UnreachableStoreIsError ==
    \A t \in TaskIds :
        (~u_env.s3_up /\ u_pc[t] = "finished") =>
            /\ t \in DOMAIN processing_status
            /\ processing_status[t].status = ERROR
            /\ processing_status[t].message # ""

----------------------------------------------------------------------------
(* s3_pdf_processor.py: setup_athena_compatibility and its two steps,      *)
(* generate_symlink_format_manifest and create_glue_table_from_delta       *)

\* What a call may meet: parquet files under the table's prefix or none, a
\* storage request that fails, a Glue client or none, a database and a table
\* that exist or not, a Glue request that fails.
Catalogs ==
    [parquet : BOOLEAN, s3_fault : {"none", "list_objects_v2", "put_object"},
     glue_client : BOOLEAN, database : BOOLEAN, table : BOOLEAN,
     glue_fault : {"none", "get_database", "create_database", "create_table",
                   "update_table"}]

\* the step with its except clause taken away: a failed request goes up
ManifestUncaught(c) ==
    IF c.s3_fault = "list_objects_v2" THEN [raised |-> TRUE, path |-> FALSE]
    ELSE IF ~c.parquet THEN [raised |-> FALSE, path |-> FALSE]
    ELSE IF c.s3_fault = "put_object" THEN [raised |-> TRUE, path |-> FALSE]
    ELSE [raised |-> FALSE, path |-> TRUE]

\* generate_symlink_format_manifest, lines 1304-1362: the path of the
\* manifest, or "" without parquet files or after an exception
generate_symlink_format_manifest(c) ==
    IF c.s3_fault = "list_objects_v2" THEN [raised |-> FALSE, path |-> FALSE]
    ELSE IF ~c.parquet THEN [raised |-> FALSE, path |-> FALSE]
    ELSE IF c.s3_fault = "put_object" THEN [raised |-> FALSE, path |-> FALSE]
    ELSE [raised |-> FALSE, path |-> TRUE]

\* The Glue requests create_glue_table_from_delta makes, in order.
GlueRequests(c) ==
    <<"get_database">>
    \o (IF c.database THEN <<>> ELSE <<"create_database">>)
    \o <<"create_table">>
    \o (IF c.table THEN <<"update_table">> ELSE <<>>)

\* The requests made up to the one that fails.
GlueDone(c) ==
    LET rs == GlueRequests(c)
        bad == {i \in DOMAIN rs : rs[i] = c.glue_fault}
    IN  IF bad = {} THEN rs ELSE SubSeq(rs, 1, SetMin(bad) - 1)

\* create_glue_table_from_delta, lines 1364-1462: True when every request
\* succeeded, False without a client or after an exception
create_glue_table_from_delta(c) ==
    c.glue_client /\ GlueDone(c) = GlueRequests(c)

InitAthena ==
    /\ mode = "athena"
    /\ IdleExcept({"athena"})
    /\ q_pc = "manifest"
    /\ q_in \in Catalogs
    /\ q_res = {}
    /\ q_tried = <<>>
    /\ q_made = NothingMade

\* lines 1486-1494: the manifest step
AthenaManifest ==
    /\ mode = "athena"
    /\ q_pc = "manifest"
    /\ LET r == generate_symlink_format_manifest(q_in)
       IN  /\ q_tried' = Append(q_tried, "manifest")
           /\ q_made' = [q_made EXCEPT !.manifest = r.path]
           /\ IF r.raised
              THEN q_pc' = "returned" /\ q_res' = {"error"}
              ELSE /\ q_pc' = "glue"
                   /\ q_res' = IF r.path THEN {"symlink_manifest"} ELSE {}
    /\ UNCHANGED <<q_in, outsideAthena>>

\* lines 1496-1503: the catalog step
AthenaGlue ==
    /\ mode = "athena"
    /\ q_pc = "glue"
    /\ LET done == IF q_in.glue_client THEN GlueDone(q_in) ELSE <<>>
           has(r) == \E i \in DOMAIN done : done[i] = r
       IN  /\ q_tried' = Append(q_tried, "glue")
           /\ q_made' = [q_made EXCEPT
                  !.database = has("create_database"),
                  !.table = IF has("update_table") THEN "updated"
                            ELSE IF has("create_table") /\ ~q_in.table
                            THEN "created" ELSE ""]
           /\ q_res' = IF create_glue_table_from_delta(q_in)
                       THEN q_res \cup {"glue_table"} ELSE q_res
    /\ q_pc' = "rest"
    /\ UNCHANGED <<q_in, outsideAthena>>

\* lines 1505-1526: the repair command and the sample query
AthenaReturn ==
    /\ mode = "athena"
    /\ q_pc = "rest"
    /\ q_res' = q_res \cup {"msck_command", "sample_query"}
    /\ q_pc' = "returned"
    /\ UNCHANGED <<q_in, q_tried, q_made, outsideAthena>>

NextAthena == AthenaManifest \/ AthenaGlue \/ AthenaReturn

SpecAthena == InitAthena /\ [][NextAthena]_vars

\* Whether each step can succeed on what the call meets.
ManifestCanSucceed(c) == c.parquet /\ c.s3_fault = "none"
GlueCanSucceed(c) ==
    c.glue_client /\ \A i \in DOMAIN GlueRequests(c) :
                        GlueRequests(c)[i] # c.glue_fault

\* C16: every call of setup_athena_compatibility attempts the manifest step
\* and the catalog step, a failure of one does not prevent the other, and
\* the result reports each on its own: 'symlink_manifest' exactly when the
\* manifest was written, 'glue_table' exactly when the table was registered.
C16_BothStepsAttempted ==
    q_pc = "returned" =>
        /\ q_tried = <<"manifest", "glue">>
        /\ "symlink_manifest" \in q_res <=> ManifestCanSucceed(q_in)
        /\ "glue_table" \in q_res <=> GlueCanSucceed(q_in)
        /\ "error" \notin q_res

\* One step failed, the other was made and is reported.
C16_Witness ==
    /\ q_pc = "returned"
    /\ q_in.s3_fault = "list_objects_v2"
    /\ q_tried = <<"manifest", "glue">>
    /\ "glue_table" \in q_res
    /\ "symlink_manifest" \notin q_res
    /\ q_made.table = "created"

\* main.py line 68: executor = ThreadPoolExecutor(max_workers=2)
max_workers == 2

\* C17: at most max_workers background units run process_pdf_sync at the
\* same time; a unit beyond that waits until one of them has ended.
C17_PoolBound ==
    Cardinality({t \in TaskIds : Running(t)}) <= max_workers

\* A thread that runs a unit is scheduled again and again, and every call
\* the unit makes returns or raises: each step of a unit that can be taken
\* is taken in the end.
SpecPoolFair ==
    SpecPool /\ \A t \in TaskIds : WF_vars(UnitStep(t))

Ended(t) == u_pc[t] = "finished" /\ t_last[t] \in {COMPLETED, ERROR}

\* C18: every task whose unit has started reaches COMPLETED or ERROR in the
\* end, as long as every external call returns or raises.
C18_EveryTaskEnds ==
    \A t \in TaskIds : Running(t) ~> Ended(t)

\* A unit ended in ERROR through the except clause of process_pdf_sync.
C18_Witness ==
    \E t \in TaskIds :
        /\ Ended(t)
        /\ t \in DOMAIN processing_status
        /\ processing_status[t].status = ERROR
        /\ processing_status[t].message = "Erro interno"

\* The entries of m that are not older than MaxAge at the given time.
NotOld(m, time) ==
    [k \in {j \in DOMAIN m : time - m[j].timestamp <= MaxAge} |-> m[k]]

\* A call of clear_old_status ends with this step.
SweepEnds == sw.pc # "idle" /\ sw'.pc = "idle"

\* C19: clear_old_status removes exactly the entries whose timestamp is more
\* than one hour old and leaves every other entry as it is, and no other
\* operation removes an entry from the status map.
C19_SweepRemovesExactlyOld ==
    [][/\ SweepEnds => processing_status' = NotOld(processing_status, sw.time)
       /\ ~SweepEnds => DOMAIN processing_status \subseteq DOMAIN processing_status']_vars

----------------------------------------------------------------------------
(* pdf_processing_service.py: _find_natural_break on its own, for texts    *)
(* with two separators near the candidate end                              *)

\* The separators placed in the text: four break kinds and the plain space.
BreakSeparators ==
    {<<Ch("."), Ch(" ")>>, <<Ch(","), Ch(" ")>>, <<Ch("!"), Ch(" ")>>,
     <<Ch("."), Ch("\n")>>, <<Ch(" ")>>}

\* Letters, a separator, letters, a separator, letters: the first separator
\* before the candidate end, the second before or after it.
BreakTexts ==
    {<<L(a)>> \o s1 \o <<L(b)>> \o s2 \o <<L(500)>> :
        a \in {940, 960, 975}, b \in {5, 20, 40},
        s1 \in BreakSeparators, s2 \in BreakSeparators}

InitBreak ==
    /\ mode = "break"
    /\ IdleExcept({"break"})
    /\ b_pc = "start"
    /\ b_in \in [text : BreakTexts, start : {0}, preferred_end : {chunk_size}]
    /\ b_ret = 0

\* lines 214-263: the call
BreakCall ==
    /\ mode = "break"
    /\ b_pc = "start"
    /\ b_ret' = find_natural_break(b_in.text, b_in.start, b_in.preferred_end)
    /\ b_pc' = "returned"
    /\ UNCHANGED <<b_in, outsideBreak>>

NextBreak == BreakCall

SpecBreak == InitBreak /\ [][NextBreak]_vars

\* The window of the call (lines 228-230).
WindowOf(c) ==
    LET w == Min2(BreakWindow, (c.preferred_end - c.start) \div 2)
    IN  [lo |-> Max2(c.preferred_end - w, c.start),
         hi |-> Min2(c.preferred_end + w, TextLen(c.text))]

\* Every occurrence of a break kind inside the window: the position just
\* after it and the rank of its kind in break_chars.
BreakOccurrences(c) ==
    UNION {{[after |-> p + 2, kind |-> k] :
               k \in {j \in 1 .. Len(break_chars) :
                        /\ CharAt(c.text, p) = break_chars[j][1]
                        /\ CharAt(c.text, p + 1) = break_chars[j][2]}} :
           p \in {q \in SpecialPos(c.text) :
                    q >= WindowOf(c).lo /\ q + 2 <= WindowOf(c).hi}}

\* o is at least as good as every occurrence: nearer to the candidate end,
\* or as near and of a kind that comes no later.
Closest(c, o) ==
    \A x \in BreakOccurrences(c) :
        \/ Abs(o.after - c.preferred_end) < Abs(x.after - c.preferred_end)
        \/ /\ Abs(o.after - c.preferred_end) = Abs(x.after - c.preferred_end)
           /\ o.kind <= x.kind

\* C21: with the candidate end before the end of the text and a natural
\* break in the search window, _find_natural_break returns the position
\* just after the break that is closest to the candidate end among all the
\* breaks in the window, the kind of higher priority winning a tie.
C21_ClosestBreak ==
    (/\ b_pc = "returned"
     /\ b_in.preferred_end < TextLen(b_in.text)
     /\ BreakOccurrences(b_in) # {}) =>
        \E o \in BreakOccurrences(b_in) : Closest(b_in, o) /\ b_ret = o.after

----------------------------------------------------------------------------
(* s3_pdf_processor.py: what parse_ai_response returns (SpecParse).  The   *)
(* character "row" stands for a JSON object with scalar values, "1" for a  *)
(* number.                                                                 *)

\* The list is a list of objects: one bracket around objects and commas.
AllRows(data) ==
    /\ Len(data) >= 2
    /\ data[1].c = "[" /\ data[1].n = 1
    /\ \A i \in 2 .. Len(data) : data[i].c \in {"row", ",", "]"}

\* C22: every non-empty result of parse_ai_response is a list whose
\* elements are all row mappings, for every response text.
C22_ResultIsRows ==
    (p_pc = "done" /\ p_ret.data # <<>>) => AllRows(p_ret.data)

----------------------------------------------------------------------------
(* s3_pdf_processor.py: the log and the data files of a snapshot           *)
(* (SpecWriter)                                                            *)

\* The data files the log entries of s name in their add records.
Referenced(s, table) ==
    {s[LogKey(table, v)].path : v \in LogVersions(s, table)}

\* C23: after any sequence of successful single-writer writes to a snapshot
\* name, every data file stored for it is referenced by the add record of a
\* log entry, so that the rows of every write are part of the table.
C23_EveryDataFileReferenced ==
    (SingleWriter /\ WritersIdle) =>
        DataFiles(s3, SnapshotName) \subseteq Referenced(s3, SnapshotName)

\* C25: the CREATE path of save_or_append_delta_table_to_s3 is taken only
\* when the snapshot has no log entry; in particular, when the listing of
\* the existence check fails, log entry 0 of an existing snapshot is not
\* overwritten.  Stated for calls made one after the other.
C25_CreateOnlyWithoutLog ==
    [][(mode = "writer" /\ ~h_overlap') =>
         \A w \in Writers :
            /\ (w_pc[w] = "idle" /\ w_pc'[w] = "data"
                    /\ w_entry'[w].branch = "CREATE") =>
                 LogVersions(s3, SnapshotName) = {}
            /\ (w_pc[w] = "log" /\ w_pc'[w] = "athena"
                    /\ LogKey(SnapshotName, 0) \in DOMAIN s3) =>
                 s3'[LogKey(SnapshotName, 0)] = s3[LogKey(SnapshotName, 0)]]_vars

\* C26: in every storage state of a single writer, the states inside one
\* write and the state left by an upload that failed partway included, each
\* log entry in the bucket references a data file that is in the bucket:
\* upload_delta_structure_to_s3 puts the data file before the log entry.
C26_LogAfterData ==
    (mode = "writer" /\ ~h_overlap) =>
        Referenced(s3, SnapshotName) \subseteq DataFiles(s3, SnapshotName)

\* A write stopped between its two uploads: its data file is stored, the
\* call returned the error, and no log entry names the file.
C26_Witness ==
    /\ mode = "writer" /\ ~h_overlap /\ WritersIdle
    /\ \E w \in Writers :
         /\ w_ret[w] = "Erro"
         /\ DataKey(SnapshotName, w_entry[w].part, w_entry[w].df) \in DOMAIN s3
         /\ DataKey(SnapshotName, w_entry[w].part, w_entry[w].df)
               \notin Referenced(s3, SnapshotName)

\* the snapshot a key of delta_files stands for (lines 686-715)
SnapshotOf(file) ==
    CASE file = "delta_investimento" -> "investimento"
      [] file = "delta_renda_fixa" -> "renda_fixa"
      [] file = "delta_produto_valor" -> "produto_valor"
      [] file = "delta_fluxo_caixa" -> "fluxo_caixa"

\* C27: the result map of generate_and_save_delta_tables_to_s3 has an entry
\* for a snapshot only if a data file and a log entry of that snapshot were
\* stored; a write that failed adds no entry.
C27_EntryOnlyIfStored ==
    mode = "gen" =>
        \A file \in g_files :
            /\ LogVersions(s3, SnapshotOf(file)) # {}
            /\ DataFiles(s3, SnapshotOf(file)) # {}

\* C28: a task that process_pdf_sync sets to COMPLETED had its text chunked
\* and indexed; when that stage reports a failure the task is not COMPLETED.
C28_CompletedMeansIndexed ==
    mode = "pool" =>
        \A t \in DOMAIN processing_status :
            processing_status[t].status = COMPLETED =>
                processing_status[t].result = "indexed"

\* C30: after any sequence of writes to the fixed-name snapshot, one after
\* the other and every request answered, the columns registered in the
\* catalog are those of the schema in log entry 0, also when the writes
\* brought frames with different columns.
C30_CatalogMatchesSchema ==
    (/\ SingleWriter /\ WritersIdle
     /\ SnapshotName \in DOMAIN glue
     /\ LogKey(SnapshotName, 0) \in DOMAIN s3) =>
        glue[SnapshotName] = s3[LogKey(SnapshotName, 0)].schema

====
